---- MODULE Spec2Model ----
(***************************************************************************)
(* Model of diag_borreliosis.py (LYRAE): the record-assembly pipeline      *)
(* (build_template, apply_inputs_to_template, fill_missing_code_like_R,    *)
(* coerce_like_train_python), the probability-to-category mapper, the      *)
(* geocoding chain and the Streamlit session around them.                  *)
(*                                                                         *)
(* Texts are sequences of one-character strings, so that strip(), lower()  *)
(* and number parsing are computed and not assumed.  Column names are      *)
(* sequences of name tokens (<<"ELISA_pos", "_missing_code">>), so that    *)
(* endswith("_missing_code") and replace("_missing_code", "") are computed.*)
(***************************************************************************)
EXTENDS Integers, Sequences, FiniteSets, TLC

VARIABLES
    \* ---- schema loaded from meta.json (load_model_and_meta)
    feature_cols, cat_cols, factor_levels,
    \* ---- st.session_state
    page, active_tab, widgets, geo, risk_class, last_result,
    \* ---- the last script run: the inputs dict and the submit pipeline
    pc, inputs, X_app, X_enc, X, X_cb, p_one, cat, missing_feats,
    \* ---- geocode_address: provider replies, calls made, returned value
    address, ban_resp, nom_resp, calls, geo_tmp,
    \* ---- history: what the user typed into the form, per feature, the number
    \* ---- of edits, and the address and outcome of each locate action
    answered, edits, located,
    \* ---- the artifacts on disk, the reference XLSX and the column check
    model_file, meta_file, xlsx_cols, col_report,
    \* ---- the sidebar's two paths, the entries of st.cache_resource for
    \* ---- load_model_and_meta, and the number of times its body has run
    model_path, meta_path, load_memo, loads,
    \* ---- the risk raster: local file, st.cache_data entry, requests made,
    \* ---- last reply of the remote source, last point sampled, calls made
    raster_file, raster_memo, fetches, fetch_reply, point, ncalls,
    \* ---- the label risk_class_from_geo read last, before reconciliation
    raw_label

vars == <<feature_cols, cat_cols, factor_levels,
          page, active_tab, widgets, geo, risk_class, last_result,
          pc, inputs, X_app, X_enc, X, X_cb, p_one, cat, missing_feats,
          address, ban_resp, nom_resp, calls, geo_tmp,
          answered, edits, located,
          model_file, meta_file, xlsx_cols, col_report,
          model_path, meta_path, load_memo, loads,
          raster_file, raster_memo, fetches, fetch_reply, point, ncalls, raw_label>>

schemaVars  == <<feature_cols, cat_cols, factor_levels>>
sessionVars == <<page, active_tab, widgets, geo, risk_class, last_result>>
recordVars  == <<X_app, X_enc, X, X_cb, missing_feats>>
scoreVars   == <<p_one, cat>>
geoVars     == <<address, ban_resp, nom_resp, calls, geo_tmp>>
ghostVars   == <<answered, edits, located>>
cacheVars   == <<model_path, meta_path, load_memo, loads>>
loadVars    == <<model_file, meta_file, xlsx_cols, col_report, cacheVars>>
rasterVars  == <<raster_file, raster_memo, fetches, fetch_reply, point, ncalls,
                 raw_label>>
envVars     == <<loadVars, rasterVars>>

(***************************************************************************)
(* Bounds of the model.                                                    *)
(***************************************************************************)
\* probabilities are multiples of 1/PScale; PMargin grid points lie outside [0,1]
PMargin == 40
\* longest free text built from the small alphabet
MaxLen == 2
\* most blanks put before and after a word
MaxPad == 1
\* most widget edits in one session
MaxEdits == 2
\* most calls of risk_class_from_geo, and most locate actions, in one process
MaxCalls == 2
\* most executions of the body of load_model_and_meta in one process
MaxLoads == 3
\* most tokens in the registry of Classe_de_risque given to the reconciliation
MaxLevels == 2

(***************************************************************************)
(* Cells.  A cell is [k, v]: k = "NA" (pd.NA / None), "NaN" (float nan),   *)
(* "num" (v = <<m, e, f>>: the number m / 10^e, f = 1 for a float, 0 for   *)
(* an int), "inf" (v = <<sign>>) or "str" (v = the text).                  *)
(***************************************************************************)
NA     == [k |-> "NA",  v |-> <<>>]
NaN    == [k |-> "NaN", v |-> <<>>]
Inf(s) == [k |-> "inf", v |-> <<s>>]
Str(t) == [k |-> "str", v |-> t]

RECURSIVE Norm(_, _)
\* the number m / 10^e with no trailing zero in the fraction
Norm(m, e) == IF e > 0 /\ m % 10 = 0 THEN Norm(m \div 10, e - 1) ELSE <<m, e>>

IntCell(n)      == [k |-> "num", v |-> <<n, 0, 0>>]
FloatCell(m, e) == [k |-> "num", v |-> Norm(m, e) \o <<1>>]

\* pd.isna(val)
isna(val) == val.k \in {"NA", "NaN"}

(***************************************************************************)
(* Texts: str.strip(), str.lower()                                         *)
(***************************************************************************)
Upper == <<"A","B","C","D","E","F","G","H","I","J","K","L","M",
           "N","O","P","Q","R","S","T","U","V","W","X","Y","Z">>
Lower == <<"a","b","c","d","e","f","g","h","i","j","k","l","m",
           "n","o","p","q","r","s","t","u","v","w","x","y","z">>
Whitespace == {" ", "\t"}
Digits == <<"0","1","2","3","4","5","6","7","8","9">>

lowerChar(c) ==
    IF \E i \in 1..Len(Upper) : Upper[i] = c
    THEN Lower[CHOOSE i \in 1..Len(Upper) : Upper[i] = c]
    ELSE c

lower(t) == [i \in 1..Len(t) |-> lowerChar(t[i])]

RECURSIVE lstrip(_)
lstrip(t) == IF t # <<>> /\ Head(t) \in Whitespace THEN lstrip(Tail(t)) ELSE t

RECURSIVE rstrip(_)
rstrip(t) == IF t # <<>> /\ t[Len(t)] \in Whitespace
             THEN rstrip(SubSeq(t, 1, Len(t) - 1)) ELSE t

strip(t) == rstrip(lstrip(t))

IsDigit(c) == \E i \in 1..Len(Digits) : Digits[i] = c
DigitVal(c) == (CHOOSE i \in 1..Len(Digits) : Digits[i] = c) - 1

RECURSIVE DigitsVal(_)
\* value of a sequence of digits (0 for the empty sequence)
DigitsVal(t) == IF t = <<>> THEN 0
                ELSE 10 * DigitsVal(SubSeq(t, 1, Len(t) - 1)) + DigitVal(t[Len(t)])

RECURSIVE FormatNat(_)
\* str(n) of a natural number
FormatNat(n) == IF n < 10 THEN <<Digits[n + 1]>>
                ELSE FormatNat(n \div 10) \o <<Digits[(n % 10) + 1]>>

RECURSIVE Pow10(_)
Pow10(e) == IF e = 0 THEN 1 ELSE 10 * Pow10(e - 1)

RECURSIVE ZeroPad(_, _)
\* the digits t left-padded with "0" to n characters
ZeroPad(t, n) == IF Len(t) >= n THEN t ELSE ZeroPad(<<"0">> \o t, n)

\* str(x) of a number cell: "3" for the int 3, "3.0" and "3.5" for floats
FormatNum(val) ==
    LET m    == val.v[1]
        e    == val.v[2]
        a    == IF m < 0 THEN -m ELSE m
        sign == IF m < 0 THEN <<"-">> ELSE <<>>
        ip   == FormatNat(a \div Pow10(e))
        fp   == IF e = 0 THEN <<"0">> ELSE ZeroPad(FormatNat(a % Pow10(e)), e)
    IN  IF val.v[3] = 0 THEN sign \o ip ELSE sign \o ip \o <<".">> \o fp

(***************************************************************************)
(* pd.to_numeric(..., errors="coerce") on one cell.  A text is read as an  *)
(* optionally signed decimal, blanks around it skipped; the words nan and  *)
(* inf are read case-insensitively; anything else is coerced to NaN.       *)
(***************************************************************************)
StripSign(s) == IF s # <<>> /\ Head(s) \in {"+", "-"} THEN Tail(s) ELSE s
SignOf(s)    == IF s # <<>> /\ Head(s) = "-" THEN -1 ELSE 1
DotAt(b)     == {i \in 1..Len(b) : b[i] = "."}
FirstDot(b)  == CHOOSE i \in DotAt(b) : \A j \in DotAt(b) : i <= j
IntPart(b)   == IF DotAt(b) = {} THEN b ELSE SubSeq(b, 1, FirstDot(b) - 1)
FracPart(b)  == IF DotAt(b) = {} THEN <<>> ELSE SubSeq(b, FirstDot(b) + 1, Len(b))
AllDigits(t) == \A i \in 1..Len(t) : IsDigit(t[i])

IsDecimal(s) ==
    LET b == StripSign(s)
    IN  /\ AllDigits(IntPart(b))
        /\ AllDigits(FracPart(b))
        /\ Len(IntPart(b)) + Len(FracPart(b)) > 0

DecimalOf(s) ==
    LET b == StripSign(s)
    IN  FloatCell(SignOf(s) * DigitsVal(IntPart(b) \o FracPart(b)), Len(FracPart(b)))

InfWords    == {<<"i","n","f">>, <<"+","i","n","f">>,
                <<"i","n","f","i","n","i","t","y">>,
                <<"+","i","n","f","i","n","i","t","y">>}
NegInfWords == {<<"-","i","n","f">>, <<"-","i","n","f","i","n","i","t","y">>}

to_numeric(val) ==
    CASE val.k \in {"NA", "NaN"} -> NaN
      [] val.k = "num"           -> FloatCell(val.v[1], val.v[2])
      [] val.k = "inf"           -> val
      [] OTHER ->
            LET s == strip(val.v)
            IN  IF IsDecimal(s) THEN DecimalOf(s)
                ELSE IF lower(val.v) \in InfWords THEN Inf(1)
                ELSE IF lower(val.v) \in NegInfWords THEN Inf(-1)
                ELSE NaN

(***************************************************************************)
(* yn_to_num_if_needed                                                     *)
(***************************************************************************)
YesWords == {<<"o","u","i">>, <<"y","e","s">>, <<"y">>, <<"t","r","u","e">>,
             <<"v","r","a","i">>, <<"1">>}
NoWords  == {<<"n","o","n">>, <<"n","o">>, <<"n">>, <<"f","a","l","s","e">>,
             <<"f","a","u","x">>, <<"0">>}

\* str(val) for the cells that reach the text branch
str(val) == CASE val.k = "str" -> val.v
              [] val.k = "num" -> FormatNum(val)
              [] val.k = "inf" -> IF val.v[1] < 0 THEN <<"-","i","n","f">> ELSE <<"i","n","f">>
              [] OTHER         -> <<"<","N","A",">">>

\* the normalization without .lower()
yn_to_num_case_sensitive(val, col_is_numeric) ==
    IF isna(val) THEN val
    ELSE IF ~col_is_numeric THEN val
    ELSE IF val.k = "num" THEN FloatCell(val.v[1], val.v[2])
    ELSE IF val.k = "inf" THEN val
    ELSE LET s == strip(str(val))
         IN  IF s \in YesWords THEN FloatCell(1, 0)
             ELSE IF s \in NoWords THEN FloatCell(0, 0)
             ELSE val

yn_to_num_if_needed(val, col_is_numeric) ==
    IF isna(val) THEN val
    ELSE IF ~col_is_numeric THEN val
    ELSE IF val.k = "num" THEN FloatCell(val.v[1], val.v[2])
    ELSE IF val.k = "inf" THEN val
    ELSE LET s == lower(strip(str(val)))
         IN  IF s \in YesWords THEN FloatCell(1, 0)
             ELSE IF s \in NoWords THEN FloatCell(0, 0)
             ELSE val

(***************************************************************************)
(* Column names and the Record (a one-row DataFrame).                      *)
(***************************************************************************)
SUFFIX == "_missing_code"
Col(name) == <<name>>
MC(name)  == <<name, SUFFIX>>

\* c.endswith("_missing_code")
endswith_missing_code(c) == c # <<>> /\ c[Len(c)] = SUFFIX
\* mc.replace("_missing_code", ""): every occurrence is removed
replace_missing_code(mc) == SelectSeq(mc, LAMBDA tok : tok # SUFFIX)

Range(seq) == {seq[i] : i \in 1..Len(seq)}

analysis_cols ==
    { Col("piroplasmose_neg"), Col("ehrlichiose_neg"), Col("ehrlichiose_negatif"),
      Col("Bilan_sanguin_normal"), Col("NFS_normale"),
      Col("Parametres_musculaires_normaux"), Col("Parametres_renaux_normaux"),
      Col("Parametres_hepatiques_normaux"), Col("SAA_normal"), Col("Fibrinogene_normal"),
      Col("ELISA_pos"), Col("ELISA_OspA_pos"), Col("ELISA_OspF_pos"), Col("ELISA_p39"),
      Col("WB_pos"), Col("PCR_sang_pos"), Col("SNAP_C6_pos"), Col("IFAT_pos"),
      Col("PCR_LCR_pos"), Col("PCR_synoviale_pos"), Col("PCR_peau_pos"),
      Col("PCR_humeur_aqueuse_pos"), Col("PCR_tissu_nerveux_pos"),
      Col("PCR_liquide_articulaire_pos"), Col("LCR_pleiocytose"),
      Col("LCR_proteines_augmentees"), Col("IHC_tissulaire_pos"),
      Col("Coloration_argent_pos"), Col("FISH_tissulaire_pos"),
      Col("CVID"), Col("Hypoglobulinemie") }

\* pd.DataFrame([{c: pd.NA for c in feature_cols}])
build_template(fcols) ==
    [columns |-> fcols, row |-> [c \in Range(fcols) |-> NA]]

\* the overlay without its test "k in X.columns": X.at[0, k] = v then adds the
\* column k at the end of the frame
apply_inputs_unguarded(XX, inp) ==
    LET new == CHOOSE q \in [1..Cardinality(DOMAIN inp \ DOMAIN XX.row)
                                -> DOMAIN inp \ DOMAIN XX.row] :
                 \A i, j \in DOMAIN q : i # j => q[i] # q[j]
    IN  [columns |-> XX.columns \o new,
         row |-> [c \in DOMAIN XX.row \cup DOMAIN inp |->
                    IF c \in DOMAIN inp THEN inp[c] ELSE XX.row[c]]]

\* for k, v in inputs.items(): if k in X.columns: X.at[0, k] = v
apply_inputs_to_template(XX, inp) ==
    [XX EXCEPT !.row = [c \in DOMAIN XX.row |->
                          IF c \in DOMAIN inp THEN inp[c] ELSE XX.row[c]]]

\* miss_cols = [c for c in X.columns if c.endswith("_missing_code")]
miss_cols_of(XX) == SelectSeq(XX.columns, LAMBDA c : endswith_missing_code(c))

\* the two codes exchanged
missing_code_swapped(base, analysis_cols_set) ==
    IF base \in analysis_cols_set THEN IntCell(1) ELSE IntCell(2)

\* value written for an unknown base
missing_code_of(base, analysis_cols_set) ==
    IF base \in analysis_cols_set THEN IntCell(2) ELSE IntCell(1)

RECURSIVE fill_loop(_, _, _, _)
\* the second loop of fill_missing_code_like_R, from the i-th indicator on
fill_loop(row, miss_cols, i, analysis_cols_set) ==
    IF i > Len(miss_cols) THEN row
    ELSE LET mc   == miss_cols[i]
             base == replace_missing_code(mc)
             nxt  == IF base \notin DOMAIN row THEN row
                     ELSE IF isna(row[base])
                          THEN [row EXCEPT ![mc] = missing_code_of(base, analysis_cols_set)]
                          ELSE row
         IN  fill_loop(nxt, miss_cols, i + 1, analysis_cols_set)

\* the encoder without its first loop, which sets every indicator to 0
fill_without_reset(XX, analysis_cols_set) ==
    LET miss_cols == miss_cols_of(XX)
    IN  IF miss_cols = <<>> THEN XX
        ELSE [XX EXCEPT !.row = fill_loop(XX.row, miss_cols, 1, analysis_cols_set)]

fill_missing_code_like_R(XX, analysis_cols_set) ==
    LET miss_cols == miss_cols_of(XX)
        zeroed    == [c \in DOMAIN XX.row |->
                        IF c \in Range(miss_cols) THEN IntCell(0) ELSE XX.row[c]]
    IN  IF miss_cols = <<>> THEN XX
        ELSE [XX EXCEPT !.row = fill_loop(zeroed, miss_cols, 1, analysis_cols_set)]

MISSING == <<"_","_","M","I","S","S","I","N","G","_","_">>

\* the categorical coercion with the yes/no normalization applied first
coerce_cat_cell_yn(val) ==
    IF isna(val) THEN Str(MISSING) ELSE Str(str(yn_to_num_if_needed(val, TRUE)))

\* the categorical coercion through repr(), which puts a text in quotes
coerce_cat_cell_repr(val) ==
    IF isna(val) THEN Str(MISSING)
    ELSE IF val.k = "str" THEN Str(<<"'">> \o val.v \o <<"'">>)
    ELSE Str(str(val))

\* X[c].astype("string").fillna("__MISSING__").astype(str), on one cell
coerce_cat_cell(val) == IF isna(val) THEN Str(MISSING) ELSE Str(str(val))

\* pd.to_numeric(yn_to_num_if_needed(v, True), errors="coerce"), on one cell
coerce_num_cell(val) == to_numeric(yn_to_num_if_needed(val, TRUE))

coerce_like_train_python(XX, fcols, ccols, flevels) ==
    [XX EXCEPT !.row = [c \in DOMAIN XX.row |->
        IF c \in Range(ccols) THEN coerce_cat_cell(XX.row[c])
        ELSE IF c \in Range(fcols) THEN coerce_num_cell(XX.row[c])
        ELSE XX.row[c]]]

\* X_cb = X.copy(); every categorical column forced to str again
recoerce_cat(XX, ccols) ==
    [XX EXCEPT !.row = [c \in DOMAIN XX.row |->
        IF c \in Range(ccols) THEN coerce_cat_cell(XX.row[c]) ELSE XX.row[c]]]

\* missing_feats: non-indicator features that pd.isna() after coercion
missing_feats_of(XX, fcols) ==
    SelectSeq(fcols, LAMBDA c : ~endswith_missing_code(c) /\ isna(XX.row[c]))

(***************************************************************************)
(* cat_from_p_like_R.  A probability is [nan, n]: the float n / PScale,    *)
(* or NaN.  Every comparison with NaN is false.                            *)
(***************************************************************************)
PScale == 10000

Prob(n) == [nan |-> FALSE, n |-> n]
ProbNaN == [nan |-> TRUE,  n |-> 0]

\* p < num/den
lt(p, num, den) == ~p.nan /\ p.n * den < num * PScale

CAT_NONE     == "Pas de Lyme ou informations insuffisantes"
CAT_POSSIBLE == "Lyme possible"
CAT_PROBABLE == "Lyme probable"
CAT_SUR      == "Lyme sur"

\* the mapper with the boundaries given to the lower category
cat_from_p_inclusive_high(p) ==
    IF ~p.nan /\ p.n * 4 <= PScale THEN CAT_NONE
    ELSE IF ~p.nan /\ p.n * 4 <= 2 * PScale THEN CAT_POSSIBLE
    ELSE IF ~p.nan /\ p.n * 4 <= 3 * PScale THEN CAT_PROBABLE
    ELSE CAT_SUR

cat_from_p_like_R(p) ==
    IF lt(p, 1, 4) THEN CAT_NONE
    ELSE IF lt(p, 2, 4) THEN CAT_POSSIBLE
    ELSE IF lt(p, 3, 4) THEN CAT_PROBABLE
    ELSE CAT_SUR

(***************************************************************************)
(* geocode_address.  A provider reply is [t, status, body, lat, lon]:      *)
(* t = "resp" (an HTTP response) or "exc" (requests raised: timeout,       *)
(* connection error); body = "match" (a first candidate with coordinates), *)
(* "empty" (no candidate) or "malformed" (r.json() or the indexing raises).*)
(* The result is None, a found dict or the __error__ dict.                 *)
(***************************************************************************)
None == [tag |-> "None", lat |-> 0, lon |-> 0, display_name |-> <<>>,
         provider |-> "", status |-> 0]
Found(lat, lon, display_name, provider) ==
    [tag |-> "Found", lat |-> lat, lon |-> lon, display_name |-> display_name,
     provider |-> provider, status |-> 0]
ErrorDict(status, provider) ==
    [tag |-> "Error", lat |-> 0, lon |-> 0, display_name |-> <<>>,
     provider |-> provider, status |-> status]

Exc == [t |-> "exc", status |-> 0, body |-> "none", lat |-> 0, lon |-> 0]
Resp(status, body, lat, lon) ==
    [t |-> "resp", status |-> status, body |-> body, lat |-> lat, lon |-> lon]

HTTP_OK == 200

\* not address or address.strip() == ""
blank(addr) == strip(addr) = <<>>

\* the name a provider gives to its first candidate
LABEL == <<"1"," ","R","u","e">>

\* props.get("label", q), data[0].get("display_name", q): a body "match" names
\* its candidate, a body "match_nolabel" does not
display_name_of(reply, q) == IF reply.body = "match" THEN LABEL ELSE q

has_match(reply) == reply.body \in {"match", "match_nolabel"}

\* the BAN block: a found dict, or None when the code falls through
geocode_ban(ban, q) ==
    IF ban.t = "resp" /\ ban.status = HTTP_OK /\ has_match(ban)
    THEN Found(ban.lat, ban.lon, display_name_of(ban, q), "BAN")
    ELSE None

\* the Nominatim block
geocode_nominatim(nom, q) ==
    IF nom.t = "exc" THEN None
    ELSE IF nom.status # HTTP_OK THEN ErrorDict(nom.status, "Nominatim")
    ELSE IF has_match(nom)
         THEN Found(nom.lat, nom.lon, display_name_of(nom, q), "Nominatim")
    ELSE None

\* the providers requested, in order
geocode_calls(addr, ban, nom) ==
    IF blank(addr) THEN <<>>
    ELSE IF geocode_ban(ban, strip(addr)).tag = "Found" THEN <<"BAN">>
    ELSE <<"BAN", "Nominatim">>

\* the chain with Nominatim asked first
geocode_address_nominatim_first(addr, ban, nom) ==
    IF blank(addr) THEN None
    ELSE IF geocode_nominatim(nom, strip(addr)).tag = "Found"
         THEN geocode_nominatim(nom, strip(addr))
    ELSE geocode_ban(ban, strip(addr))

\* a chain that knows no address
geocode_address_always_none(addr, ban, nom) == None

geocode_address(addr, ban, nom) ==
    IF blank(addr) THEN None
    ELSE IF geocode_ban(ban, strip(addr)).tag = "Found" THEN geocode_ban(ban, strip(addr))
    ELSE geocode_nominatim(nom, strip(addr))

(***************************************************************************)
(* Risk label from the raster.  sample is what reading the raster gives:   *)
(* "exc" (download, open or reprojection raised), "nocrs" (ds.crs is None),*)
(* "outside" (point outside ds.bounds), "offgrid" (row/col outside the     *)
(* grid), "empty" (empty window) or the pixel value "1", "2", "3", "0".    *)
(***************************************************************************)
\* the letter e with an acute accent (U+00E9), one character
E_ACUTE == "e'"

RAW_LOW  == <<"f","a","i","b","l","e"," ","o","u"," ","m",E_ACUTE,"c","o","n","n","u">>
RAW_MID  == <<"i","n","t","e","r","m",E_ACUTE,"d","i","a","i","r","e">>
RAW_HIGH == <<"f","o","r","t">>

KW_FAIBLE   == <<"f","a","i","b","l","e">>
KW_MECONNU  == <<"m","e","c","o","n","n","u">>
KW_MECONNU2 == <<"m",E_ACUTE,"c","o","n","n","u">>
KW_INTER    == <<"i","n","t","e","r">>
KW_FORT     == <<"f","o","r","t">>

\* kw in t
Contains(t, kw) ==
    \E i \in 0..(Len(t) - Len(kw)) : SubSeq(t, i + 1, i + Len(kw)) = kw

\* pick(keyword): the first level containing it, <<>> standing for None
pick(keyword, levels) ==
    LET hits == {i \in 1..Len(levels) : Contains(lower(strip(levels[i])), keyword)}
    IN  IF hits = {} THEN <<>>
        ELSE levels[CHOOSE i \in hits : \A j \in hits : i <= j]

\* a or b, on texts (the empty text is falsy)
orElse(a, b) == IF a # <<>> THEN a ELSE b

\* the reconciliation with the keyword looked for before the equal token
best_match_keyword_first(target, levels) ==
    LET t     == lower(strip(target))
        exact == {i \in 1..Len(levels) : lower(strip(levels[i])) = t}
        bykw  == IF Contains(t, KW_FAIBLE) \/ Contains(t, KW_MECONNU) \/ Contains(t, KW_MECONNU2)
                 THEN orElse(pick(KW_FAIBLE, levels),
                        orElse(pick(KW_MECONNU, levels), pick(KW_MECONNU2, levels)))
                 ELSE IF Contains(t, KW_INTER) THEN pick(KW_INTER, levels)
                 ELSE IF Contains(t, KW_FORT) THEN pick(KW_FORT, levels)
                 ELSE <<>>
    IN  IF levels = <<>> THEN target
        ELSE IF bykw # <<>> THEN bykw
        ELSE IF exact # {} THEN levels[CHOOSE i \in exact : \A j \in exact : i <= j]
        ELSE target

best_match_risk_label(target, levels) ==
    LET t     == lower(strip(target))
        exact == {i \in 1..Len(levels) : lower(strip(levels[i])) = t}
    IN  IF levels = <<>> THEN target
        ELSE IF exact # {} THEN levels[CHOOSE i \in exact : \A j \in exact : i <= j]
        ELSE IF Contains(t, KW_FAIBLE) \/ Contains(t, KW_MECONNU) \/ Contains(t, KW_MECONNU2)
             THEN orElse(pick(KW_FAIBLE, levels),
                    orElse(pick(KW_MECONNU, levels),
                      orElse(pick(KW_MECONNU2, levels), target)))
        ELSE IF Contains(t, KW_INTER) THEN orElse(pick(KW_INTER, levels), target)
        ELSE IF Contains(t, KW_FORT) THEN orElse(pick(KW_FORT, levels), target)
        ELSE target

raw_label_of(sample) ==
    CASE sample = "2" -> RAW_MID
      [] sample = "3" -> RAW_HIGH
      [] OTHER        -> RAW_LOW

CLASSE_DE_RISQUE == Col("Classe_de_risque")

\* factor_levels.get(c, [])
levels_of(flevels, c) == IF c \in DOMAIN flevels THEN flevels[c] ELSE <<>>

\* the label as a cell, NA standing for None
risk_class_from_geo(sample, flevels) ==
    IF sample \in {"exc", "nocrs"} THEN NA
    ELSE LET lv == levels_of(flevels, CLASSE_DE_RISQUE)
         IN  IF lv # <<>> THEN Str(best_match_risk_label(raw_label_of(sample), lv))
             ELSE Str(raw_label_of(sample))

(***************************************************************************)
(* The raster behind risk_class_from_geo.  The local file is "absent",     *)
(* "empty" (size 0), "tif" (a raster with a reference system), "nocrs" (a  *)
(* raster without one) or "garbage" (bytes rasterio cannot open).  The     *)
(* raster has RasterWidth x RasterHeight pixels of size 1, its upper left  *)
(* corner at x = 0, y = RasterHeight.                                      *)
(***************************************************************************)
RasterWidth  == 3
RasterHeight == 2

\* the origin of the raster's reference system, in degrees
RasterLon0 == 1
RasterLat0 == 47

\* ds.bounds
RasterBounds == [left |-> 0, right |-> RasterWidth, bottom |-> 0, top |-> RasterHeight]

\* the values stored in band 1; "nan" is a no-data pixel, on which int() raises
PixelValues == <<"1", "2", "3", "0", "nan">>
pixel_at(row, col) == PixelValues[((row * RasterWidth + col) % Len(PixelValues)) + 1]

\* Transformer.from_crs("EPSG:4326", ds_crs, always_xy=True).transform(lon, lat)
transform(lon, lat) == <<lon - RasterLon0, lat - RasterLat0>>

\* rowcol(ds.transform, x, y)
rowcol(x, y) == <<RasterBounds.top - y, x - RasterBounds.left>>

\* the read without the test of the row and the column against the grid
sample_of_no_grid_check(file, lon, lat) ==
    IF file \in {"absent", "empty", "garbage"} THEN "exc"
    ELSE IF file = "nocrs" THEN "nocrs"
    ELSE LET x  == transform(lon, lat)[1]
             y  == transform(lon, lat)[2]
             rc == rowcol(x, y)
         IN  IF \/ x < RasterBounds.left   \/ x > RasterBounds.right
                \/ y < RasterBounds.bottom \/ y > RasterBounds.top
             THEN "outside"
             ELSE pixel_at(rc[1], rc[2])

\* what reading the local file at (lon, lat) gives
sample_of(file, lon, lat) ==
    IF file \in {"absent", "empty", "garbage"} THEN "exc"
    ELSE IF file = "nocrs" THEN "nocrs"
    ELSE LET x  == transform(lon, lat)[1]
             y  == transform(lon, lat)[2]
             rc == rowcol(x, y)
         IN  IF \/ x < RasterBounds.left   \/ x > RasterBounds.right
                \/ y < RasterBounds.bottom \/ y > RasterBounds.top
             THEN "outside"
             ELSE IF \/ rc[1] < 0 \/ rc[2] < 0
                     \/ rc[1] >= RasterHeight \/ rc[2] >= RasterWidth
                  THEN "offgrid"
                  ELSE pixel_at(rc[1], rc[2])

\* replies of the remote source of the raster
FetchExc == [t |-> "exc", status |-> 0, body |-> "none"]
FetchResp(status, body) == [t |-> "resp", status |-> status, body |-> body]
NoReply == [t |-> "none", status |-> 0, body |-> "none"]

\* a download that looks neither at the cache entry nor at the local file
download_always_fetch(file, memo, reply) ==
    IF reply.t = "exc" \/ reply.status >= 400
    THEN [raised |-> TRUE, file |-> file, memo |-> FALSE, requested |-> TRUE]
    ELSE [raised |-> FALSE, file |-> reply.body, memo |-> TRUE, requested |-> TRUE]

\* download_risk_raster under st.cache_data: [raised, file, memo, requested]
download_risk_raster(file, memo, reply) ==
    IF memo
    THEN [raised |-> FALSE, file |-> file, memo |-> TRUE, requested |-> FALSE]
    ELSE IF file \notin {"absent", "empty"}
    THEN [raised |-> FALSE, file |-> file, memo |-> TRUE, requested |-> FALSE]
    ELSE IF reply.t = "exc" \/ reply.status >= 400
    THEN [raised |-> TRUE, file |-> file, memo |-> FALSE, requested |-> TRUE]
    ELSE [raised |-> FALSE, file |-> reply.body, memo |-> TRUE, requested |-> TRUE]

\* one call of risk_class_from_geo with the download it starts with
risk_call(file, memo, reply, lat, lon, flevels) ==
    LET d == download_risk_raster(file, memo, reply)
    IN  [label     |-> IF d.raised THEN NA
                       ELSE risk_class_from_geo(sample_of(d.file, lon, lat), flevels),
         raw       |-> IF d.raised \/ sample_of(d.file, lon, lat) \in {"exc", "nocrs"}
                       THEN <<>>
                       ELSE raw_label_of(sample_of(d.file, lon, lat)),
         file      |-> d.file,
         memo      |-> d.memo,
         requested |-> d.requested]

(***************************************************************************)
(* Schemas (meta.json) and the values given to the pipeline.               *)
(***************************************************************************)
AGE      == Col("Age_du_cheval")
SEXE     == Col("Sexe")
BOITERIE == Col("Boiterie")
ELISA    == Col("ELISA_pos")

LV_SEXE   == << <<"F">>, <<"M">> >>
LV_RISQUE == << RAW_LOW, RAW_MID, RAW_HIGH >>

\* a schema with indicators for a free-text numeric, a yes/no sign and an
\* analysis result, an indicator whose base is gone, and a categorical column
\* listed in cat_cols that feature_cols does not have
PipeMeta ==
    [ feature_cols  |-> << AGE, MC("Age_du_cheval"), SEXE, BOITERIE, MC("Boiterie"),
                           ELISA, MC("ELISA_pos"), MC("Ancienne_variable"),
                           CLASSE_DE_RISQUE >>,
      cat_cols      |-> << SEXE, Col("Type_de_cheval"), CLASSE_DE_RISQUE >>,
      factor_levels |-> (SEXE :> LV_SEXE) @@ (CLASSE_DE_RISQUE :> LV_RISQUE) ]

TextMeta ==
    [ feature_cols  |-> << AGE, SEXE >>,
      cat_cols      |-> << SEXE >>,
      factor_levels |-> (SEXE :> LV_SEXE) ]

T_OUI    == <<"O","u","i">>
T_NON    == <<"N","o","n">>
T_BANANA == <<"b","a","n","a","n","a">>
T_INF    == <<"i","n","f">>
T_12     == <<"1","2">>
T_1      == <<"1">>

\* marks a key the caller's mapping does not hold
ABSENT == [k |-> "absent", v |-> <<>>]

\* the mapping without its absent keys
Present(f) == [c \in {d \in DOMAIN f : f[d] # ABSENT} |-> f[c]]

PipeInputs ==
    { Present( (AGE :> a) @@ (SEXE :> b) @@ (BOITERIE :> c) @@ (ELISA :> d)
               @@ (MC("ELISA_pos") :> e) @@ (Col("Champ_inconnu") :> f)
               @@ (CLASSE_DE_RISQUE :> g) ) :
        a \in {NA, Str(T_BANANA), Str(T_12), IntCell(3), Str(T_INF), Str(T_OUI)},
        b \in {NA, Str(<<"F">>), Str(T_OUI), Str(T_1), Str(<<"X">>), IntCell(1)},
        c \in {NA, Str(T_OUI), Str(T_NON)},
        d \in {NA, Str(T_OUI), Str(T_NON)},
        e \in {ABSENT, IntCell(1), Str(T_BANANA)},
        f \in {ABSENT, Str(T_OUI)},
        g \in {NA, Str(RAW_HIGH)} }

upperChar(c) ==
    IF \E i \in 1..Len(Lower) : Lower[i] = c
    THEN Upper[CHOOSE i \in 1..Len(Lower) : Lower[i] = c]
    ELSE c
upper(t) == [i \in 1..Len(t) |-> upperChar(t[i])]
capitalize(t) == [i \in 1..Len(t) |-> IF i = 1 THEN upperChar(t[i]) ELSE t[i]]

Words ==
    { <<"o","u","i">>, <<"y","e","s">>, <<"y">>, <<"t","r","u","e">>, <<"v","r","a","i">>,
      <<"n","o","n">>, <<"n","o">>, <<"n">>, <<"f","a","l","s","e">>, <<"f","a","u","x">>,
      <<"1">>, <<"0">>, <<"3",".","5">>, <<"1","2">>, <<"-","1">>, <<"0",".","0">>,
      <<"1",".","0">>, <<"0","1">>, <<"1","0">>, <<"2">>,
      <<"b","a","n","a","n","a">>, <<"o","u","i","i">>, <<"n","a","n">>,
      <<"i","n","f">>, <<"-","i","n","f">>, <<"1",".","2",".","3">>, <<"o"," ","u","i">> }

Pads == {<<>>} \cup {[i \in 1..n |-> w] : n \in 1..MaxPad, w \in Whitespace}

WordTexts == { l \o c \o r : l \in Pads, r \in Pads,
                             c \in UNION {{w, upper(w), capitalize(w)} : w \in Words} }

SmallAlphabet == {"0", "1", "5", ".", "-", "+", " ", "y", "n", "o", "N", "Y"}
ShortTexts == UNION {[1..n -> SmallAlphabet] : n \in 0..MaxLen}

Texts == WordTexts \cup ShortTexts

\* what the classifier may answer (model.predict_proba)
ModelProbs == {Prob(0), Prob(PScale \div 4), Prob(PScale)}

(***************************************************************************)
(* Loading the artifacts.  model_file is "ok", "missing" or "corrupt"      *)
(* (load_model raises).  meta_file tells whether meta.json exists, whether *)
(* it parses as JSON, and which keys it holds.  A call returns             *)
(* [raised, exc, meta].                                                    *)
(***************************************************************************)
META_KEYS == <<"feature_cols", "cat_cols", "factor_levels">>

MetaFile(exists, parses, keys) == [exists |-> exists, parses |-> parses, keys |-> keys]

NoMeta == [feature_cols |-> <<>>, cat_cols |-> <<>>, factor_levels |-> <<>>]

Raise(exc) == [raised |-> TRUE, exc |-> exc, meta |-> NoMeta]
Return(meta) == [raised |-> FALSE, exc |-> "", meta |-> meta]

\* json.load alone, the keys not looked at
load_meta_unchecked(mf, content) ==
    IF ~mf.parses THEN Raise("JSONDecodeError") ELSE Return(content)

\* json.load, then the three keys are required
load_meta(mf, content) ==
    IF ~mf.parses THEN Raise("JSONDecodeError")
    ELSE IF \E i \in 1..Len(META_KEYS) : META_KEYS[i] \notin mf.keys
         THEN Raise("ValueError")
         ELSE Return(content)

load_model_and_meta(mod, mf, content) ==
    IF mod = "missing" THEN Raise("FileNotFoundError")
    ELSE IF ~mf.exists THEN Raise("FileNotFoundError")
    ELSE IF load_meta(mf, content).raised THEN load_meta(mf, content)
    ELSE IF mod = "corrupt" THEN Raise("CatBoostError")
    ELSE load_meta(mf, content)

(***************************************************************************)
(* st.cache_resource around load_model_and_meta.  The entry is keyed by    *)
(* the two arguments of the call; a call that raises stores nothing.       *)
(* A cached call returns [hit, result, memo].                              *)
(***************************************************************************)
MODEL_DEFAULT == "equine_lyme_catboost.cbm"
META_DEFAULT  == "equine_lyme_catboost_meta.json"

\* @st.cache_resource def load_model_and_meta(model_path_str, meta_path_str)
cached_load(memo, model_path_str, meta_path_str, mod, mf, content) ==
    LET key == <<model_path_str, meta_path_str>>
    IN  IF key \in DOMAIN memo
        THEN [hit |-> TRUE, result |-> memo[key], memo |-> memo]
        ELSE LET r == load_model_and_meta(mod, mf, content)
             IN  [hit |-> FALSE, result |-> r,
                  memo |-> IF r.raised THEN memo ELSE (key :> r) @@ memo]

(***************************************************************************)
(* The column check against the reference XLSX.  load_xlsx_columns gives   *)
(* the header of the sheet, or one name starting with "__ERROR__:".        *)
(***************************************************************************)
REF_XLSX_IGNORE == { Col("target"), Col("y"), Col("label") }

XLSX_ERROR == << <<"__ERROR__:", "ConnectionError">> >>

NoReport == [status |-> "none", missing_in_model |-> {}, extra_in_model |-> {}]

column_check(xlsx, fcols) ==
    IF xlsx # <<>> /\ xlsx[1] # <<>> /\ xlsx[1][1] = "__ERROR__:"
    THEN [status |-> "unreadable", missing_in_model |-> {}, extra_in_model |-> {}]
    ELSE LET ref_set  == {c \in Range(xlsx) : c # <<>> /\ c \notin REF_XLSX_IGNORE}
             feat_set == Range(fcols)
             missing  == ref_set \ feat_set
             extra    == feat_set \ ref_set
         IN  [status |-> IF missing = {} /\ extra = {} THEN "ok" ELSE "mismatch",
              missing_in_model |-> missing, extra_in_model |-> extra]

(***************************************************************************)
(* Values of the variables a specification does not use.                   *)
(***************************************************************************)
NoRecord == [columns |-> <<>>, row |-> <<>>]
NO_CAT   == ""

TAB_LABELS == << "Identite", "Contexte & exposition", "Diagnostic d'exclusion",
                 "Signes cliniques", "Resultats d'analyse" >>

IdleSchema  == feature_cols = <<>> /\ cat_cols = <<>> /\ factor_levels = <<>>
IdleSession == /\ page = "home" /\ active_tab = TAB_LABELS[1] /\ widgets = <<>>
               /\ geo = None /\ risk_class = NA /\ last_result = None
IdleRecord  == /\ X_app = NoRecord /\ X_enc = NoRecord /\ X = NoRecord
               /\ X_cb = NoRecord /\ missing_feats = <<>>
IdleScore   == p_one = Prob(0) /\ cat = NO_CAT
IdleGeo     == /\ address = <<>> /\ ban_resp = Exc /\ nom_resp = Exc
               /\ calls = <<>> /\ geo_tmp = None
IdleGhost   == answered = <<>> /\ edits = 0 /\ located = <<>>
IdleCache   == /\ model_path = MODEL_DEFAULT /\ meta_path = META_DEFAULT
               /\ load_memo = <<>> /\ loads = 0
IdleLoad    == /\ model_file = "ok"
               /\ meta_file = MetaFile(TRUE, TRUE, Range(META_KEYS))
               /\ xlsx_cols = <<>> /\ col_report = NoReport
               /\ IdleCache
IdleRaster  == /\ raster_file = "absent" /\ raster_memo = FALSE /\ fetches = 0
               /\ fetch_reply = NoReply /\ point = <<0, 0>> /\ ncalls = 0
               /\ raw_label = <<>>
IdleEnv     == IdleLoad /\ IdleRaster

(***************************************************************************)
(* SpecCat: cat_from_p_like_R applied to one probability.                  *)
(***************************************************************************)
ProbInputs == {Prob(n) : n \in (0 - PMargin)..(PScale + PMargin)} \cup {ProbNaN}

InitCat ==
    /\ pc = "start" /\ inputs = <<>>
    /\ p_one \in ProbInputs /\ cat = NO_CAT
    /\ IdleSchema /\ IdleSession /\ IdleRecord /\ IdleGeo /\ IdleGhost /\ IdleEnv

MapCategory ==
    /\ pc = "start"
    /\ pc' = "mapped"
    /\ cat' = cat_from_p_like_R(p_one)
    /\ UNCHANGED <<envVars, schemaVars, sessionVars, recordVars, geoVars, ghostVars, inputs, p_one>>

NextCat == MapCategory
SpecCat == InitCat /\ [][NextCat]_vars

(***************************************************************************)
(* SpecGeo: geocode_address on one address and one reply per provider.     *)
(***************************************************************************)
Addresses == { <<>>, <<" ">>, <<"1"," ","r","u","e">> }
ErrStatuses == {404, 429, 503}
Replies ==
    {Exc}
    \cup {Resp(HTTP_OK, "match", la, lo) : la \in {45, 48}, lo \in {2}}
    \cup {Resp(HTTP_OK, "match_nolabel", 48, 2)}
    \cup {Resp(HTTP_OK, "empty", 0, 0), Resp(HTTP_OK, "malformed", 0, 0)}
    \cup {Resp(st, "empty", 0, 0) : st \in ErrStatuses}

InitGeo ==
    /\ pc = "start" /\ inputs = <<>>
    /\ address \in Addresses /\ ban_resp \in Replies /\ nom_resp \in Replies
    /\ calls = <<>> /\ geo_tmp = None
    /\ IdleSchema /\ IdleSession /\ IdleRecord /\ IdleScore /\ IdleGhost /\ IdleEnv

Geocode ==
    /\ pc = "start"
    /\ pc' = "geocoded"
    /\ calls' = geocode_calls(address, ban_resp, nom_resp)
    /\ geo_tmp' = geocode_address(address, ban_resp, nom_resp)
    /\ UNCHANGED <<envVars, schemaVars, sessionVars, recordVars, scoreVars, ghostVars,
                   inputs, address, ban_resp, nom_resp>>

NextGeo == Geocode
SpecGeo == InitGeo /\ [][NextGeo]_vars

(***************************************************************************)
(* SpecPipe, SpecText: the submit pipeline, one stage per step, on a       *)
(* caller's mapping.                                                       *)
(***************************************************************************)
PipeBuild ==
    /\ pc = "start"
    /\ pc' = "built"
    /\ X_app' = apply_inputs_to_template(build_template(feature_cols), inputs)
    /\ UNCHANGED <<envVars, schemaVars, sessionVars, scoreVars, geoVars, ghostVars,
                   inputs, X_enc, X, X_cb, missing_feats>>

PipeFill ==
    /\ pc = "built"
    /\ pc' = "filled"
    /\ X_enc' = fill_missing_code_like_R(X_app, analysis_cols)
    /\ UNCHANGED <<envVars, schemaVars, sessionVars, scoreVars, geoVars, ghostVars,
                   inputs, X_app, X, X_cb, missing_feats>>

\* the coercion followed by a second pass of the encoder
PipeCoerceThenFill ==
    /\ pc = "filled"
    /\ pc' = "coerced"
    /\ X' = coerce_like_train_python(X_enc, feature_cols, cat_cols, factor_levels)
    /\ X_enc' = fill_missing_code_like_R(X', analysis_cols)
    /\ UNCHANGED <<envVars, schemaVars, sessionVars, scoreVars, geoVars, ghostVars,
                   inputs, X_app, X_cb, missing_feats>>

PipeCoerce ==
    /\ pc = "filled"
    /\ pc' = "coerced"
    /\ X' = coerce_like_train_python(X_enc, feature_cols, cat_cols, factor_levels)
    /\ UNCHANGED <<envVars, schemaVars, sessionVars, scoreVars, geoVars, ghostVars,
                   inputs, X_app, X_enc, X_cb, missing_feats>>

PipeScore ==
    /\ pc = "coerced"
    /\ pc' = "scored"
    /\ X_cb' = recoerce_cat(X, cat_cols)
    /\ \E p \in ModelProbs : p_one' = p /\ cat' = cat_from_p_like_R(p)
    /\ missing_feats' = missing_feats_of(X, feature_cols)
    /\ UNCHANGED <<envVars, schemaVars, sessionVars, geoVars, ghostVars,
                   inputs, X_app, X_enc, X>>

NextPipe == PipeBuild \/ PipeFill \/ PipeCoerce \/ PipeScore

InitPipe ==
    /\ pc = "start"
    /\ feature_cols = PipeMeta.feature_cols /\ cat_cols = PipeMeta.cat_cols
    /\ factor_levels = PipeMeta.factor_levels
    /\ inputs \in PipeInputs
    /\ IdleSession /\ IdleRecord /\ IdleScore /\ IdleGeo /\ IdleGhost /\ IdleEnv

SpecPipe == InitPipe /\ [][NextPipe]_vars

InitText ==
    /\ pc = "start"
    /\ feature_cols = TextMeta.feature_cols /\ cat_cols = TextMeta.cat_cols
    /\ factor_levels = TextMeta.factor_levels
    /\ \E t \in Texts : inputs = (AGE :> Str(t)) @@ (SEXE :> Str(t))
    /\ IdleSession /\ IdleRecord /\ IdleScore /\ IdleGeo /\ IdleGhost /\ IdleEnv

SpecText == InitText /\ [][NextPipe]_vars

(***************************************************************************)
(* The form: which columns each tab asks, and what a widget can return.    *)
(***************************************************************************)
TAB_IDENTITE  == TAB_LABELS[1]
TAB_CONTEXTE  == TAB_LABELS[2]
TAB_EXCLUSION == TAB_LABELS[3]
TAB_SIGNES    == TAB_LABELS[4]
TAB_RESULTATS == TAB_LABELS[5]

RESULTS_ANALYSIS_COLS ==
    << Col("ELISA_pos"), Col("ELISA_OspA_pos"), Col("ELISA_OspF_pos"), Col("ELISA_p39"),
       Col("WB_pos"), Col("SNAP_C6_pos"), Col("IFAT_pos"),
       Col("PCR_sang_pos"), Col("PCR_LCR_pos"), Col("PCR_synoviale_pos"),
       Col("PCR_liquide_articulaire_pos"), Col("PCR_peau_pos"),
       Col("PCR_humeur_aqueuse_pos"), Col("PCR_tissu_nerveux_pos"),
       Col("LCR_pleiocytose"), Col("LCR_proteines_augmentees"),
       Col("IHC_tissulaire_pos"), Col("Coloration_argent_pos"),
       Col("FISH_tissulaire_pos"), Col("CVID"), Col("Hypoglobulinemie") >>

IDENTITE_COLS == { Col("Age_du_cheval"), Col("Type_de_cheval"), Col("Season"), Col("Sexe") }

\* the two spellings of one question: with the acute accent (written ') and without
EXTERIEUR_ACCENT == Col("Exterieur_vegetalise'")
EXTERIEUR_PLAIN  == Col("Exterieur_vegetalise")

\* col_ui: the accented spelling when the schema has it, else the plain one
col_ui(fcols) == IF EXTERIEUR_ACCENT \in Range(fcols) THEN EXTERIEUR_ACCENT
                 ELSE EXTERIEUR_PLAIN

CONTEXTE_COLS(fcols) == { Col("Tiques_semaines_precedentes"), col_ui(fcols),
                          Col("Freq_acces_exterieur_sem") }

EXCLUSION_COLS ==
    { Col("Examen_clinique"), Col("piroplasmose_neg"), Col("ehrlichiose_neg"),
      Col("ehrlichiose_negatif"), Col("Bilan_sanguin_normal"), Col("NFS_normale"),
      Col("SAA_normal"), Col("Fibrinogene_normal"), Col("Parametres_musculaires_normaux"),
      Col("Parametres_renaux_normaux"), Col("Parametres_hepatiques_normaux") }

SIGNES_COLS ==
    { Col("Abattement"), Col("Mauvaise_performance"), Col("Douleurs_diffuses"),
      Col("Boiterie"), Col("Meningite"), Col("Radiculonevrite"),
      Col("Troubles_de_la_demarche"), Col("Dysphagie"), Col("Fasciculations_musculaires"),
      Col("Uveite_bilaterale"), Col("Cecite_avec_cause_inflammatoire"), Col("Synechies"),
      Col("Atrophie"), Col("Dyscories"), Col("Myosis"),
      Col("Synovite_avec_epanchement_articulaire"), Col("Pseudolyphome_cutane"),
      Col("Pododermatite") }

\* has(col)
has(col, fcols) == col \in Range(fcols)

\* ALIASES: each spelling of Exterieur_vegetalise the schema lacks, mapped to
\* the spelling it has
ALIASES(fcols) ==
    [k \in { c \in {EXTERIEUR_ACCENT, EXTERIEUR_PLAIN} :
               ~has(c, fcols)
               /\ has(IF c = EXTERIEUR_ACCENT THEN EXTERIEUR_PLAIN
                      ELSE EXTERIEUR_ACCENT, fcols) }
       |-> IF k = EXTERIEUR_ACCENT THEN EXTERIEUR_PLAIN ELSE EXTERIEUR_ACCENT]

\* put() without its elif branch
put_without_alias(inp, col, value, fcols) ==
    IF col \in Range(fcols) THEN (col :> value) @@ inp ELSE inp

\* put(col, value): inputs[col] = value for a feature, inputs[ALIASES[col]] =
\* value for an alias of a feature, nothing otherwise
put(inp, col, value, fcols) ==
    IF col \in Range(fcols) THEN (col :> value) @@ inp
    ELSE IF col \in DOMAIN ALIASES(fcols) /\ ALIASES(fcols)[col] \in Range(fcols)
         THEN (ALIASES(fcols)[col] :> value) @@ inp
         ELSE inp

\* "Autres variables disponibles": every feature the tab has not put yet that is
\* no indicator, no analysis result and not Classe_de_risque
extra_candidates(fcols) ==
    { c \in Range(fcols) :
        /\ c \notin SIGNES_COLS
        /\ ~endswith_missing_code(c)
        /\ c \notin Range(RESULTS_ANALYSIS_COLS)
        /\ c # CLASSE_DE_RISQUE }

\* the columns whose widget a run of the tab renders and puts into inputs
rendered_cols(tab, fcols) ==
    CASE tab = TAB_IDENTITE  -> IDENTITE_COLS \cap Range(fcols)
      [] tab = TAB_CONTEXTE  -> CONTEXTE_COLS(fcols) \cap Range(fcols)
      [] tab = TAB_EXCLUSION -> EXCLUSION_COLS \cap Range(fcols)
      [] tab = TAB_SIGNES    -> (SIGNES_COLS \cap Range(fcols)) \cup extra_candidates(fcols)
      [] OTHER               -> Range(RESULTS_ANALYSIS_COLS) \cap Range(fcols)

\* a widget is keyed by its tab and its column (id_<col>, sg_<col>, extra_<col>, ...)
WidgetKeys(fcols) ==
    { <<TAB_LABELS[i], c>> : i \in 1..Len(TAB_LABELS), c \in Range(fcols) } \cap
    UNION { { <<TAB_LABELS[i], c>> : c \in rendered_cols(TAB_LABELS[i], fcols) } :
            i \in 1..Len(TAB_LABELS) }

\* the columns input_widget shows as a Oui/Non select box
\* (names ending in _neg, _normal, _normale, starting with ELISA, WB, PCR, SNAP,
\* IFAT, or listed): of the analysis columns only ehrlichiose_negatif is not
BIN_LIKE ==
    (analysis_cols \ {Col("ehrlichiose_negatif")}) \cup SIGNES_COLS \cup
    { Col("Examen_clinique"), Col("Tiques_semaines_precedentes") }

SEASON_ORDER == << <<"p","r","i","n","t","e","m","p","s">>, <<E_ACUTE,"t",E_ACUTE>>,
                   <<"a","u","t","o","m","n","e">>, <<"h","i","v","e","r">> >>

FREE_TEXTS == { Str(T_12), Str(T_BANANA) }

\* the answers input_widget can return for a column, pd.NA left aside
widget_options(c, ccols, flevels) ==
    IF c = Col("Season")
    THEN IF c \in Range(ccols) /\ levels_of(flevels, c) # <<>>
         THEN { Str(l) : l \in Range(levels_of(flevels, c)) }
         ELSE { Str(l) : l \in Range(SEASON_ORDER) }
    ELSE IF c = Col("Freq_acces_exterieur_sem") THEN { IntCell(n) : n \in 0..7 }
    ELSE IF c \in Range(ccols) THEN { Str(l) : l \in Range(levels_of(flevels, c)) }
    ELSE IF c \in BIN_LIKE THEN { Str(T_OUI), Str(T_NON) }
    ELSE FREE_TEXTS

\* inputs after the widgets of the tab were put
inputs_of(tab, w, fcols) == [c \in rendered_cols(tab, fcols) |-> w[<<tab, c>>]]

\* the submission without the injection of the risk label
with_risk_left_out(inp, auto_risk, fcols) == inp

\* inputs["Classe_de_risque"] = pd.NA if auto_risk is None or blank else auto_risk
with_risk(inp, auto_risk, fcols) ==
    IF has(CLASSE_DE_RISQUE, fcols)
    THEN (CLASSE_DE_RISQUE :>
            (IF isna(auto_risk) \/ strip(str(auto_risk)) = <<>> THEN NA ELSE auto_risk))
         @@ inp
    ELSE inp

AppMeta ==
    [ feature_cols  |-> << AGE, SEXE, BOITERIE, MC("Boiterie"),
                           ELISA, MC("ELISA_pos"), CLASSE_DE_RISQUE,
                           MC("Classe_de_risque") >>,
      cat_cols      |-> << SEXE, CLASSE_DE_RISQUE >>,
      factor_levels |-> (SEXE :> LV_SEXE) @@ (CLASSE_DE_RISQUE :> LV_RISQUE) ]

\* what the user can answer at all
Answerable(fcols) == { k[2] : k \in WidgetKeys(fcols) }

Samples == {"exc", "outside", "3"}
AppReplies == { Exc, Resp(HTTP_OK, "match", 48, 2), Resp(HTTP_OK, "empty", 0, 0),
                Resp(503, "empty", 0, 0) }

(***************************************************************************)
(* Spec: the Streamlit session.  Every action is one run of the script,    *)
(* started by one interaction of the user.                                 *)
(***************************************************************************)
Init ==
    /\ feature_cols = AppMeta.feature_cols /\ cat_cols = AppMeta.cat_cols
    /\ factor_levels = AppMeta.factor_levels
    /\ page = "home" /\ active_tab = TAB_IDENTITE
    /\ widgets = [k \in WidgetKeys(AppMeta.feature_cols) |-> NA]
    /\ geo = None /\ risk_class = NA /\ last_result = None
    /\ pc = "idle" /\ inputs = <<>>
    /\ IdleRecord /\ IdleScore /\ IdleGeo /\ IdleEnv
    /\ answered = [c \in Answerable(AppMeta.feature_cols) |-> NA] /\ edits = 0 /\ located = <<>>

\* st.session_state drops the state of the widgets a run did not render, or
\* keeps it, depending on the Streamlit release: both are possible
cleanup(w, tab, keep) ==
    IF keep THEN w ELSE [k \in DOMAIN w |-> IF k[1] = tab THEN w[k] ELSE NA]

\* a run that ends without a submission leaves no Record and no score
NoRecordLeft ==
    /\ X_app' = NoRecord /\ X_enc' = NoRecord /\ X' = NoRecord /\ X_cb' = NoRecord
    /\ missing_feats' = <<>> /\ p_one' = Prob(0) /\ cat' = NO_CAT

NoSubmission ==
    /\ pc' = "idle"
    /\ X_app' = NoRecord /\ X_enc' = NoRecord /\ X' = NoRecord /\ X_cb' = NoRecord
    /\ missing_feats' = <<>> /\ p_one' = Prob(0) /\ cat' = NO_CAT

\* "Commencer une evaluation clinique"
Start ==
    /\ page = "home"
    /\ page' = "eval"
    /\ inputs' = inputs_of(active_tab, widgets, feature_cols)
    /\ NoSubmission
    /\ UNCHANGED <<envVars, schemaVars, active_tab, widgets, geo, risk_class, last_result,
                   geoVars, ghostVars>>

\* "Retour accueil": the home page stops before the form is built
BackHome ==
    /\ page = "eval"
    /\ page' = "home"
    /\ \E keep \in BOOLEAN :
         /\ widgets' = cleanup(widgets, "home", keep)
         /\ active_tab' = IF keep THEN active_tab ELSE TAB_IDENTITE
    /\ inputs' = <<>>
    /\ NoSubmission
    /\ UNCHANGED <<envVars, schemaVars, geo, risk_class, last_result, geoVars, ghostVars>>

\* the tab selector
SelectTab ==
    /\ page = "eval"
    /\ \E t \in Range(TAB_LABELS) \ {active_tab}, keep \in BOOLEAN :
         /\ active_tab' = t
         /\ widgets' = cleanup(widgets, t, keep)
         /\ inputs' = inputs_of(t, widgets', feature_cols)
    /\ NoSubmission
    /\ UNCHANGED <<envVars, schemaVars, page, geo, risk_class, last_result, geoVars, ghostVars>>

\* the user answers (or clears) one question of the active tab
SetWidget ==
    /\ page = "eval"
    /\ edits < MaxEdits
    /\ \E c \in rendered_cols(active_tab, feature_cols) :
       \E v \in (widget_options(c, cat_cols, factor_levels) \cup {NA})
                  \ {widgets[<<active_tab, c>>]} :
         /\ widgets' = [widgets EXCEPT ![<<active_tab, c>>] = v]
         /\ answered' = [answered EXCEPT ![c] = v]
    /\ edits' = edits + 1
    /\ inputs' = inputs_of(active_tab, widgets', feature_cols)
    /\ NoSubmission
    /\ UNCHANGED <<envVars, schemaVars, page, active_tab, geo, risk_class, last_result,
                   geoVars, located>>

\* do_locate storing whatever geocode_address returned, and clearing the risk
\* label only when a place was looked for
LocateOutcomeKept(full_address, res, label) ==
    /\ geo_tmp' = res
    /\ geo' = IF full_address = <<>> THEN None ELSE res
    /\ risk_class' = IF res.tag = "Found" \/ full_address # <<>> THEN label
                     ELSE risk_class
    /\ located' = << [address |-> full_address, tag |-> res.tag, label |-> label] >>

\* what do_locate leaves in the session; located keeps the outcome of the
\* last locate
LocateOutcome(full_address, res, label) ==
    /\ geo_tmp' = res
    /\ geo' = IF res.tag = "Found" THEN res ELSE None
    /\ risk_class' = label
    /\ located' = << [address |-> full_address, tag |-> res.tag, label |-> label] >>

\* "Localiser sur la carte"
Locate ==
    /\ page = "eval" /\ active_tab = TAB_CONTEXTE
    /\ \E addr \in Addresses :
         LET full_address == strip(addr)
         IN  IF full_address = <<>>
             THEN LocateOutcome(full_address, None, NA)
             ELSE \E ban \in AppReplies, nom \in AppReplies :
                    LET res == geocode_address(full_address, ban, nom)
                    IN  IF res.tag = "Found"
                        THEN \E sample \in Samples :
                               LocateOutcome(full_address, res,
                                             risk_class_from_geo(sample, factor_levels))
                        ELSE LocateOutcome(full_address, res, NA)
    /\ inputs' = inputs_of(active_tab, widgets, feature_cols)
    /\ pc' = "located"
    /\ NoRecordLeft
    /\ UNCHANGED <<envVars, schemaVars, page, active_tab, widgets, last_result,
                   address, ban_resp, nom_resp, calls, answered, edits>>

\* the submission keeping its outcome in st.session_state["last_result"]
SubmitSavingResult ==
    /\ page = "eval" /\ active_tab = TAB_RESULTATS
    /\ LET inp == with_risk(inputs_of(active_tab, widgets, feature_cols),
                            risk_class, feature_cols)
           Xa  == apply_inputs_to_template(build_template(feature_cols), inp)
           Xe  == fill_missing_code_like_R(Xa, analysis_cols)
           Xc  == coerce_like_train_python(Xe, feature_cols, cat_cols, factor_levels)
       IN  /\ inputs' = inp
           /\ X_app' = Xa /\ X_enc' = Xe /\ X' = Xc
           /\ X_cb' = recoerce_cat(Xc, cat_cols)
           /\ missing_feats' = missing_feats_of(Xc, feature_cols)
    /\ \E p \in ModelProbs : /\ p_one' = p /\ cat' = cat_from_p_like_R(p)
                             /\ last_result' = [p |-> p, cat |-> cat']
    /\ pc' = "submitted"
    /\ UNCHANGED <<envVars, schemaVars, page, active_tab, widgets, geo, risk_class,
                   geoVars, ghostVars>>

\* "Lancer l'aide au diagnostic"
Submit ==
    /\ page = "eval" /\ active_tab = TAB_RESULTATS
    /\ LET inp == with_risk(inputs_of(active_tab, widgets, feature_cols),
                            risk_class, feature_cols)
           Xa  == apply_inputs_to_template(build_template(feature_cols), inp)
           Xe  == fill_missing_code_like_R(Xa, analysis_cols)
           Xc  == coerce_like_train_python(Xe, feature_cols, cat_cols, factor_levels)
       IN  /\ inputs' = inp
           /\ X_app' = Xa /\ X_enc' = Xe /\ X' = Xc
           /\ X_cb' = recoerce_cat(Xc, cat_cols)
           /\ missing_feats' = missing_feats_of(Xc, feature_cols)
    /\ \E p \in ModelProbs : p_one' = p /\ cat' = cat_from_p_like_R(p)
    /\ pc' = "submitted"
    /\ UNCHANGED <<envVars, schemaVars, sessionVars, geoVars, ghostVars>>

\* "Reinitialiser le formulaire": geo, risk_class, the address and last_result
\* are deleted, the answers' widgets are not
ResetForm ==
    /\ page = "eval"
    /\ geo' = None /\ risk_class' = NA /\ last_result' = None
    /\ inputs' = inputs_of(active_tab, widgets, feature_cols)
    /\ NoSubmission
    /\ UNCHANGED <<envVars, schemaVars, page, active_tab, widgets, geoVars, ghostVars>>

\* "Reset (session)": every key is deleted and the script starts over
ResetSession ==
    /\ page' = "home" /\ active_tab' = TAB_IDENTITE
    /\ widgets' = [k \in DOMAIN widgets |-> NA]
    /\ geo' = None /\ risk_class' = NA /\ last_result' = None
    /\ answered' = [c \in DOMAIN answered |-> NA]
    /\ inputs' = <<>>
    /\ NoSubmission
    /\ UNCHANGED <<envVars, schemaVars, geoVars, edits, located>>

Next == Start \/ BackHome \/ SelectTab \/ SetWidget \/ Locate \/ Submit
          \/ ResetForm \/ ResetSession

Spec == Init /\ [][Next]_vars

(* SpecPut: the inputs dict filled by calls of put(), then the pipeline.    *)
(* The schema holds the accented spelling of Exterieur_vegetalise, the     *)
(* plain one, both or none; answered lists the calls of put, in order.     *)
(***************************************************************************)
PutMetas ==
    { [ feature_cols  |-> <<AGE>> \o ext \o <<SEXE>>,
        cat_cols      |-> <<SEXE>>,
        factor_levels |-> (SEXE :> LV_SEXE) ] :
      ext \in { <<>>, <<EXTERIEUR_ACCENT>>, <<EXTERIEUR_PLAIN>>,
                <<EXTERIEUR_ACCENT, EXTERIEUR_PLAIN>> } }

PutKeys   == { EXTERIEUR_ACCENT, EXTERIEUR_PLAIN, AGE, Col("Champ_inconnu") }
PutValues == { Str(T_OUI), Str(T_NON) }

InitPut ==
    /\ pc = "start"
    /\ \E m \in PutMetas : /\ feature_cols = m.feature_cols
                          /\ cat_cols = m.cat_cols
                          /\ factor_levels = m.factor_levels
    /\ inputs = <<>>
    /\ IdleSession /\ IdleRecord /\ IdleScore /\ IdleGeo /\ IdleGhost /\ IdleEnv

Put ==
    /\ pc = "start"
    /\ edits < MaxEdits
    /\ \E col \in PutKeys, value \in PutValues :
          /\ inputs' = put(inputs, col, value, feature_cols)
          /\ answered' = Append(answered, <<col, value>>)
    /\ edits' = edits + 1
    /\ UNCHANGED <<envVars, schemaVars, sessionVars, recordVars, scoreVars, geoVars,
                   located, pc>>

NextPut == Put \/ NextPipe
SpecPut == InitPut /\ [][NextPut]_vars

(***************************************************************************)
(***************************************************************************)
(* SpecLoad: one run of the script in which the user submits, from the     *)
(* loading of the artifacts to the score: load_model_and_meta (st.stop()   *)
(* when it raises), the column check against the XLSX, then the pipeline.  *)
(***************************************************************************)
MetaFiles ==
    { MetaFile(FALSE, FALSE, {}), MetaFile(TRUE, FALSE, {}) }
    \cup { MetaFile(TRUE, TRUE, K) : K \in SUBSET Range(META_KEYS) }

\* the header of the reference sheet: unreadable, equal to the features of
\* the model (plus the ignored target), one feature short, one column more,
\* or empty
XlsxHeaders ==
    { XLSX_ERROR,
      TextMeta.feature_cols \o << Col("target") >>,
      << AGE, Col("target") >>,
      TextMeta.feature_cols \o << Col("Temperature") >>,
      <<>> }

LoadInputs == { <<>>, (AGE :> Str(T_12)) @@ (SEXE :> Str(<<"F">>)) }

InitLoad ==
    /\ pc = "boot"
    /\ model_file \in {"ok", "missing", "corrupt"}
    /\ meta_file \in MetaFiles
    /\ xlsx_cols \in XlsxHeaders /\ col_report = NoReport
    /\ IdleCache
    /\ inputs \in LoadInputs
    /\ IdleSchema /\ IdleSession /\ IdleRecord /\ IdleScore /\ IdleGeo /\ IdleGhost
    /\ IdleRaster

\* try: load_model_and_meta(...) except Exception: st.error(...); st.stop()
LoadModelAndMeta ==
    /\ pc = "boot"
    /\ LET r == load_model_and_meta(model_file, meta_file, TextMeta)
       IN  IF r.raised
           THEN /\ pc' = "stopped"
                /\ UNCHANGED schemaVars
           ELSE /\ pc' = "loaded"
                /\ feature_cols' = r.meta.feature_cols
                /\ cat_cols' = r.meta.cat_cols
                /\ factor_levels' = r.meta.factor_levels
    /\ UNCHANGED <<envVars, sessionVars, recordVars, scoreVars, geoVars, ghostVars,
                   inputs>>

\* the sidebar's column check: it writes its report and the run goes on
ColumnCheck ==
    /\ pc = "loaded"
    /\ pc' = "start"
    /\ col_report' = column_check(xlsx_cols, feature_cols)
    /\ UNCHANGED <<model_file, meta_file, xlsx_cols, cacheVars, rasterVars,
                   schemaVars, sessionVars, recordVars, scoreVars, geoVars,
                   ghostVars, inputs>>

NextLoad == LoadModelAndMeta \/ ColumnCheck \/ NextPipe
SpecLoad == InitLoad /\ [][NextLoad]_vars

(***************************************************************************)
(* SpecReload: the runs of the script in one process, as far as the        *)
(* loading.  Every interaction reruns the script, which reads the two      *)
(* paths from the sidebar and calls the cached load_model_and_meta; the    *)
(* run stops when the call raises.  The default paths lead to model_file   *)
(* and meta_file; a second pair of valid artifacts lies at the alternate   *)
(* paths, and nothing lies at MODEL_NOWHERE.                               *)
(***************************************************************************)
MODEL_ALT     == "autre.cbm"
MODEL_NOWHERE == "absent.cbm"
META_ALT      == "autre_meta.json"

ModelPaths == {MODEL_DEFAULT, MODEL_ALT, MODEL_NOWHERE}
MetaPaths  == {META_DEFAULT, META_ALT}

model_at(path, mod) ==
    IF path = MODEL_DEFAULT THEN mod ELSE IF path = MODEL_ALT THEN "ok" ELSE "missing"
meta_at(path, mf) ==
    IF path = META_DEFAULT THEN mf ELSE MetaFile(TRUE, TRUE, Range(META_KEYS))
content_at(path) == IF path = META_DEFAULT THEN TextMeta ELSE PipeMeta

InitReload ==
    /\ pc = "boot"
    /\ model_file \in {"ok", "missing", "corrupt"}
    /\ meta_file \in { MetaFile(TRUE, TRUE, Range(META_KEYS)),
                       MetaFile(TRUE, TRUE, {"feature_cols"}) }
    /\ xlsx_cols = <<>> /\ col_report = NoReport
    /\ IdleCache
    /\ inputs = <<>>
    /\ IdleSchema /\ IdleSession /\ IdleRecord /\ IdleScore /\ IdleGeo /\ IdleGhost
    /\ IdleRaster

\* lines 969-987 of one run: the paths of the sidebar, the cached call, and
\* st.stop() when it raises
ScriptRun(mp, tp) ==
    /\ loads < MaxLoads
    /\ model_path' = mp /\ meta_path' = tp
    /\ LET c == cached_load(load_memo, mp, tp, model_at(mp, model_file),
                            meta_at(tp, meta_file), content_at(tp))
       IN  /\ load_memo' = c.memo
           /\ loads' = IF c.hit THEN loads ELSE loads + 1
           /\ IF c.result.raised
              THEN /\ pc' = "stopped"
                   /\ UNCHANGED schemaVars
              ELSE /\ pc' = "loaded"
                   /\ feature_cols' = c.result.meta.feature_cols
                   /\ cat_cols' = c.result.meta.cat_cols
                   /\ factor_levels' = c.result.meta.factor_levels
    /\ UNCHANGED <<model_file, meta_file, xlsx_cols, col_report, rasterVars,
                   sessionVars, recordVars, scoreVars, geoVars, ghostVars, inputs>>

\* any interaction that leaves the two paths alone
Rerun == ScriptRun(model_path, meta_path)

\* the user types another path into "Chemin modele .cbm"
EditModelPath == \E mp \in ModelPaths \ {model_path} : ScriptRun(mp, meta_path)

\* the user types another path into "Chemin meta .json"
EditMetaPath == \E tp \in MetaPaths \ {meta_path} : ScriptRun(model_path, tp)

\* "Reset (session)": every key of st.session_state is deleted and the
\* script reruns; the two text inputs have no key of their own, and the
\* entries of st.cache_resource belong to the process
ResetSessionReload ==
    /\ pc # "boot"
    /\ ScriptRun(model_path, meta_path)

NextReload == Rerun \/ EditModelPath \/ EditMetaPath \/ ResetSessionReload
SpecReload == InitReload /\ [][NextReload]_vars

(***************************************************************************)
(* SpecRisk: calls of risk_class_from_geo in one process, each at a point  *)
(* (lat, lon), the remote source answering as it likes when it is asked.   *)
(***************************************************************************)
Lons == (RasterLon0 - 1)..(RasterLon0 + RasterWidth + 1)
Lats == (RasterLat0 - 1)..(RasterLat0 + RasterHeight + 1)

RasterReplies ==
    { FetchExc, FetchResp(503, "none"), FetchResp(HTTP_OK, "tif"),
      FetchResp(HTTP_OK, "empty"), FetchResp(HTTP_OK, "nocrs"),
      FetchResp(HTTP_OK, "garbage") }

\* the registries of Classe_de_risque the process may have loaded
RiskRegistries == { <<>>, CLASSE_DE_RISQUE :> LV_RISQUE }

InitRisk ==
    /\ pc = "start" /\ inputs = <<>>
    /\ feature_cols = <<>> /\ cat_cols = <<>> /\ factor_levels \in RiskRegistries
    /\ raster_file \in {"absent", "tif", "nocrs"} /\ raster_memo = FALSE
    /\ fetches = 0 /\ fetch_reply = NoReply /\ point = <<0, 0>> /\ ncalls = 0
    /\ raw_label = <<>>
    /\ IdleLoad /\ IdleSession /\ IdleRecord /\ IdleScore /\ IdleGeo /\ IdleGhost

RiskCall ==
    /\ ncalls < MaxCalls
    /\ \E lat \in Lats, lon \in Lons, reply \in RasterReplies :
         LET rc == risk_call(raster_file, raster_memo, reply, lat, lon, factor_levels)
         IN  /\ risk_class' = rc.label /\ raw_label' = rc.raw
             /\ raster_file' = rc.file /\ raster_memo' = rc.memo
             /\ fetches' = IF rc.requested THEN fetches + 1 ELSE fetches
             /\ fetch_reply' = IF rc.requested THEN reply ELSE NoReply
             /\ point' = <<lat, lon>>
    /\ ncalls' = ncalls + 1
    /\ pc' = "sampled"
    /\ UNCHANGED <<loadVars, schemaVars, page, active_tab, widgets, geo, last_result,
                   recordVars, scoreVars, geoVars, ghostVars, inputs>>

NextRisk == RiskCall
SpecRisk == InitRisk /\ [][NextRisk]_vars

(***************************************************************************)
(* SpecMatch: the reconciliation of one raw label with one registry of     *)
(* Classe_de_risque, as risk_class_from_geo does it at its end.            *)
(***************************************************************************)
MatchTargets ==
    { RAW_LOW, RAW_MID, RAW_HIGH, <<" ","F","o","r","t"," ">>,
      <<"i","n","c","o","n","n","u">> }

MatchTokens ==
    { <<"F","a","i","b","l","e">>, <<"m","e","c","o","n","n","u">>,
      <<"R","i","s","q","u","e"," ","m",E_ACUTE,"c","o","n","n","u">>,
      <<"I","n","t","e","r","m","e","d","i","a","i","r","e">>,
      <<"F","o","r","t"," ","e","l","e","v","e">>, <<"f","o","r","t">>,
      <<"F","O","R","T"," ">>, <<"i","n","c","o","n","n","u">>, RAW_LOW }

MatchRegistries == UNION {[1..n -> MatchTokens] : n \in 0..MaxLevels}

InitMatch ==
    /\ pc = "start" /\ inputs = <<>>
    /\ feature_cols = <<>> /\ cat_cols = <<>>
    /\ \E lv \in MatchRegistries :
         factor_levels = IF lv = <<>> THEN <<>> ELSE (CLASSE_DE_RISQUE :> lv)
    /\ raster_file = "absent" /\ raster_memo = FALSE /\ fetches = 0
    /\ fetch_reply = NoReply /\ point = <<0, 0>> /\ ncalls = 0
    /\ raw_label \in MatchTargets
    /\ IdleLoad /\ IdleSession /\ IdleRecord /\ IdleScore /\ IdleGeo /\ IdleGhost

\* lv = factor_levels.get("Classe_de_risque", []);
\* _best_match_risk_label(raw_label, lv) if lv else raw_label
Match ==
    /\ pc = "start"
    /\ pc' = "matched"
    /\ LET lv == levels_of(factor_levels, CLASSE_DE_RISQUE)
       IN  risk_class' = IF lv # <<>> THEN Str(best_match_risk_label(raw_label, lv))
                         ELSE Str(raw_label)
    /\ UNCHANGED <<envVars, schemaVars, page, active_tab, widgets, geo, last_result,
                   recordVars, scoreVars, geoVars, ghostVars, inputs>>

NextMatch == Match
SpecMatch == InitMatch /\ [][NextMatch]_vars

(***************************************************************************)
(* SpecLocate: a session on the tab "Contexte & exposition" in which the   *)
(* user presses "Localiser sur la carte" again and again.                  *)
(***************************************************************************)
InitLocate ==
    /\ feature_cols = AppMeta.feature_cols /\ cat_cols = AppMeta.cat_cols
    /\ factor_levels = AppMeta.factor_levels
    /\ page = "eval" /\ active_tab = TAB_CONTEXTE
    /\ widgets = [k \in WidgetKeys(AppMeta.feature_cols) |-> NA]
    /\ geo = None /\ risk_class = NA /\ last_result = None
    /\ pc = "idle" /\ inputs = <<>>
    /\ raster_file \in {"absent", "tif"} /\ raster_memo = FALSE
    /\ fetches = 0 /\ fetch_reply = NoReply /\ point = <<0, 0>> /\ ncalls = 0
    /\ raw_label = <<>>
    /\ IdleLoad /\ IdleRecord /\ IdleScore /\ IdleGeo
    /\ answered = [c \in Answerable(AppMeta.feature_cols) |-> NA] /\ edits = 0
    /\ located = <<>>

\* the handler of do_locate: geocode_address, then risk_class_from_geo at the
\* place found
LocateRun ==
    /\ page = "eval" /\ active_tab = TAB_CONTEXTE
    /\ ncalls < MaxCalls
    /\ \E addr \in Addresses, ban \in AppReplies, nom \in AppReplies,
          reply \in RasterReplies :
         LET full_address == strip(addr)
             res == geocode_address(full_address, ban, nom)
             rc  == risk_call(raster_file, raster_memo, reply, res.lat, res.lon,
                              factor_levels)
             asked == full_address # <<>> /\ res.tag = "Found"
         IN  /\ address' = full_address
             /\ ban_resp' = ban /\ nom_resp' = nom
             /\ calls' = geocode_calls(full_address, ban, nom)
             /\ geo_tmp' = res
             /\ geo' = IF asked THEN res ELSE None
             /\ risk_class' = IF asked THEN rc.label ELSE NA
             /\ raw_label' = IF asked THEN rc.raw ELSE raw_label
             /\ raster_file' = IF asked THEN rc.file ELSE raster_file
             /\ raster_memo' = IF asked THEN rc.memo ELSE raster_memo
             /\ fetches' = IF asked /\ rc.requested THEN fetches + 1 ELSE fetches
             /\ fetch_reply' = IF asked /\ rc.requested THEN reply ELSE NoReply
             /\ point' = IF asked THEN <<res.lat, res.lon>> ELSE point
             /\ located' = Append(located, [address |-> full_address, tag |-> res.tag])
    /\ ncalls' = ncalls + 1
    /\ inputs' = inputs_of(active_tab, widgets, feature_cols)
    /\ pc' = "located"
    /\ UNCHANGED <<loadVars, schemaVars, page, active_tab, widgets, last_result,
                   recordVars, scoreVars, answered, edits>>

NextLocate == LocateRun
SpecLocate == InitLocate /\ [][NextLocate]_vars

(***************************************************************************)
(* Claims.                                                                 *)
(***************************************************************************)
Encoded == pc \in {"filled", "coerced", "scored"}
Coerced == pc \in {"coerced", "scored"}

\* <base> of a column named <base>_missing_code
BaseOf(mc) == SubSeq(mc, 1, Len(mc) - 1)

\* C2: for every indicator column <base>_missing_code whose base column exists,
\* after fill_missing_code_like_R the indicator is 0 iff the base value is known,
\* 2 iff it is unknown and base is an analysis column, 1 iff it is unknown and
\* base is not an analysis column.
C2_IndicatorRule ==
    Encoded =>
      \A mc \in DOMAIN X_enc.row :
        (endswith_missing_code(mc) /\ BaseOf(mc) \in DOMAIN X_enc.row) =>
          LET base    == BaseOf(mc)
              unknown == isna(X_app.row[base])
          IN  /\ X_enc.row[base] = X_app.row[base]
              /\ (X_enc.row[mc] = IntCell(0)) <=> ~unknown
              /\ (X_enc.row[mc] = IntCell(2)) <=> (unknown /\ base \in analysis_cols)
              /\ (X_enc.row[mc] = IntCell(1)) <=> (unknown /\ base \notin analysis_cols)

\* ELISA_pos unanswered gives 2, Boiterie unanswered gives 1, an answered Age gives 0
C2_Witness ==
    /\ pc = "filled"
    /\ isna(X_app.row[ELISA]) /\ X_enc.row[MC("ELISA_pos")] = IntCell(2)
    /\ isna(X_app.row[BOITERIE]) /\ X_enc.row[MC("Boiterie")] = IntCell(1)
    /\ X_app.row[AGE] = Str(T_BANANA) /\ X_enc.row[MC("Age_du_cheval")] = IntCell(0)

\* C3: after coerce_like_train_python every categorical feature holds a string
\* token (the sentinel when the answer was unknown) and every other feature
\* holds a finite number or the unknown marker.
C3_NoNullFiniteOrUnknown ==
    Coerced =>
      \A c \in Range(feature_cols) :
        IF c \in Range(cat_cols)
        THEN /\ X.row[c].k = "str"
             /\ isna(X_enc.row[c]) => X.row[c] = Str(MISSING)
        ELSE X.row[c].k \in {"num", "NaN"}

\* C4: on a non-categorical feature, a text that trimmed and
\* lower-cased is oui/yes/y/true/vrai/1 becomes 1, non/no/n/false/faux/0 becomes
\* 0, any other text that reads as a number becomes that number, and any other
\* text becomes unknown.
NumberOfText(t) ==
    IF IsDecimal(strip(t)) THEN DecimalOf(strip(t))
    ELSE IF lower(t) \in InfWords THEN Inf(1)
    ELSE IF lower(t) \in NegInfWords THEN Inf(-1)
    ELSE NaN

C4_TextToNumber ==
    (Coerced /\ AGE \in DOMAIN inputs /\ inputs[AGE].k = "str") =>
      LET t == inputs[AGE].v
          s == lower(strip(t))
      IN  X.row[AGE] =
            IF s \in { <<"o","u","i">>, <<"y","e","s">>, <<"y">>, <<"t","r","u","e">>,
                       <<"v","r","a","i">>, <<"1">> } THEN FloatCell(1, 0)
            ELSE IF s \in { <<"n","o","n">>, <<"n","o">>, <<"n">>,
                            <<"f","a","l","s","e">>, <<"f","a","u","x">>, <<"0">> }
                 THEN FloatCell(0, 0)
            ELSE NumberOfText(t)

\* C4 with the shorter word lists: only oui/yes/vrai/1 become 1 and only non/no/faux/0
\* become 0; every other text becomes its number, or unknown when it has none.
C4_AsStated ==
    (Coerced /\ AGE \in DOMAIN inputs /\ inputs[AGE].k = "str") =>
      LET t == inputs[AGE].v
          s == lower(strip(t))
      IN  X.row[AGE] =
            IF s \in { <<"o","u","i">>, <<"y","e","s">>, <<"v","r","a","i">>, <<"1">> }
            THEN FloatCell(1, 0)
            ELSE IF s \in { <<"n","o","n">>, <<"n","o">>, <<"f","a","u","x">>, <<"0">> }
                 THEN FloatCell(0, 0)
            ELSE NumberOfText(t)

\* " OUI " becomes 1
C4_Witness ==
    /\ pc = "coerced"
    /\ inputs[AGE] = Str(<<" ","O","U","I"," ">>)
    /\ X.row[AGE] = FloatCell(1, 0)

\* C5: coercion leaves every known categorical token as it was: no yes/no
\* normalization, and a token outside factor_levels is passed through.
C5_CategoricalTokenKept ==
    Coerced =>
      \A c \in Range(cat_cols) \cap DOMAIN X.row :
        X_enc.row[c].k = "str" => X.row[c] = X_enc.row[c]

\* the answer "Oui", which is no level of Sexe, stays "Oui"
C5_Witness ==
    /\ pc = "coerced"
    /\ X_enc.row[SEXE] = Str(T_OUI)
    /\ T_OUI \notin Range(levels_of(factor_levels, SEXE))
    /\ X.row[SEXE] = Str(T_OUI)

\* C8: on [0,1], p < 0.25 gives none/insufficient, 0.25 <= p < 0.5 possible,
\* 0.5 <= p < 0.75 probable, p >= 0.75 certain.
C8_InclusiveLowThresholds ==
    (pc = "mapped" /\ ~p_one.nan /\ 0 <= p_one.n /\ p_one.n <= PScale) =>
      LET n == p_one.n
      IN  /\ cat \in {CAT_NONE, CAT_POSSIBLE, CAT_PROBABLE, CAT_SUR}
          /\ (cat = CAT_NONE)     <=> (4 * n < PScale)
          /\ (cat = CAT_POSSIBLE) <=> (PScale <= 4 * n /\ 2 * n < PScale)
          /\ (cat = CAT_PROBABLE) <=> (PScale <= 2 * n /\ 4 * n < 3 * PScale)
          /\ (cat = CAT_SUR)      <=> (3 * PScale <= 4 * n)

\* p = 0.25 exactly is mapped to possible
C8_Witness ==
    pc = "mapped" /\ ~p_one.nan /\ 4 * p_one.n = PScale /\ cat = CAT_POSSIBLE

\* C9: a probability below 0, above 1 or NaN gets no category.
C9_InvalidRejected ==
    (pc = "mapped" /\ (p_one.nan \/ p_one.n < 0 \/ p_one.n > PScale)) => cat = NO_CAT

\* C10: a non-200 reply of BAN is returned at once as an error carrying BAN's
\* status, and Nominatim is not requested.
C10_BanErrorReturned ==
    (pc = "geocoded" /\ ~blank(address)
       /\ ban_resp.t = "resp" /\ ban_resp.status # HTTP_OK) =>
      /\ geo_tmp = ErrorDict(ban_resp.status, "BAN")
      /\ calls = <<"BAN">>

\* a cell that stands for "no answer" after coercion: NaN, or the sentinel
Unknown(val) == isna(val) \/ val = Str(MISSING)

BaseFeatures == {c \in Range(feature_cols) : ~endswith_missing_code(c)}

\* C1: at a submission the Record the Missingness Encoder runs on holds, for
\* every feature the user answered in any tab, that answer, and only the
\* features the user did not answer are unknown.
C1_RecordHoldsMergedAnswers ==
    pc = "submitted" =>
      \A c \in DOMAIN answered :
        IF isna(answered[c]) THEN isna(X_app.row[c])
        ELSE X_app.row[c] = answered[c]

\* C6: after a submission the list of missing features is exactly the
\* non-indicator features unknown after coercion, numeric or categorical.
C6_MissingListExact ==
    pc = "submitted" =>
      Range(missing_feats) = {c \in BaseFeatures : Unknown(X.row[c])}

\* C7: submitting with no answer at all gives a Record whose base features are
\* all unknown, indicators 1 or 2 by the analysis-set rule, a category, and a
\* list of missing features that holds every base feature (none present).
C7_EmptyAnswerSet ==
    (pc = "submitted" /\ \A c \in DOMAIN inputs : isna(inputs[c])) =>
      /\ \A c \in BaseFeatures : isna(X_app.row[c])
      /\ \A mc \in Range(feature_cols) \ BaseFeatures :
           X_enc.row[mc] = IF BaseOf(mc) \in analysis_cols THEN IntCell(2) ELSE IntCell(1)
      /\ \A c \in BaseFeatures : Unknown(X.row[c])
      /\ cat \in {CAT_NONE, CAT_POSSIBLE, CAT_PROBABLE, CAT_SUR}
      /\ Range(missing_feats) = BaseFeatures

\* C11: the providers are asked in the order BAN, Nominatim.  A candidate of
\* BAN is returned as Found by "BAN" and Nominatim is not asked; an empty BAN
\* reply passes to Nominatim, whose candidate is returned as Found by
\* "Nominatim"; empty replies of both give None.  A Found carries lat, lon,
\* a display_name and its provider.
C11_ProviderOrder ==
    (pc = "geocoded" /\ ~blank(address)) =>
      LET banOk    == ban_resp.t = "resp" /\ ban_resp.status = HTTP_OK
          nomOk    == nom_resp.t = "resp" /\ nom_resp.status = HTTP_OK
          banMatch == banOk /\ ban_resp.body \in {"match", "match_nolabel"}
          banEmpty == banOk /\ ban_resp.body = "empty"
          nomMatch == nomOk /\ nom_resp.body \in {"match", "match_nolabel"}
          nomEmpty == nomOk /\ nom_resp.body = "empty"
      IN  /\ banMatch =>
               /\ geo_tmp.tag = "Found" /\ geo_tmp.provider = "BAN"
               /\ geo_tmp.lat = ban_resp.lat /\ geo_tmp.lon = ban_resp.lon
               /\ calls = <<"BAN">>
          /\ banEmpty => calls = <<"BAN", "Nominatim">>
          /\ (banEmpty /\ nomMatch) =>
               /\ geo_tmp.tag = "Found" /\ geo_tmp.provider = "Nominatim"
               /\ geo_tmp.lat = nom_resp.lat /\ geo_tmp.lon = nom_resp.lon
          /\ (banEmpty /\ nomEmpty) => geo_tmp = None
          /\ geo_tmp.tag = "Found" =>
               /\ geo_tmp.provider \in {"BAN", "Nominatim"}
               /\ geo_tmp.display_name # <<>>
               /\ geo_tmp.lat \in {ban_resp.lat, nom_resp.lat}

\* both providers have a candidate and BAN's is the one returned
C11_Witness ==
    /\ pc = "geocoded"
    /\ ban_resp = Resp(HTTP_OK, "match", 45, 2)
    /\ nom_resp = Resp(HTTP_OK, "match", 48, 2)
    /\ geo_tmp = Found(45, 2, LABEL, "BAN")
    /\ calls = <<"BAN">>

\* C12: when every provider asked ended in a timeout (or another network
\* exception), the outcome is not the None of an address nobody knows.
C12_TimeoutIsNotNotFound ==
    (pc = "geocoded" /\ ~blank(address)
       /\ ban_resp.t = "exc" /\ nom_resp.t = "exc") => geo_tmp # None

\* C13: a failed lookup is not kept.  When a locate action ended in None or in
\* an error for an address, the next locate action for the same address asks
\* the providers again, BAN first, and what it returns is what the providers
\* answer now: a candidate given now is returned as Found.
C13_FailureNotReused ==
    [][ ( /\ pc = "located" /\ pc' = "located"
          /\ geo_tmp.tag \in {"None", "Error"}
          /\ address # <<>> /\ address' = address )
        =>
        ( /\ calls' # <<>> /\ calls'[1] = "BAN"
          /\ (ban_resp'.t = "resp" /\ ban_resp'.status = HTTP_OK
              /\ ban_resp'.body = "match")
               => (geo_tmp'.tag = "Found" /\ geo_tmp'.provider = "BAN" /\ geo' = geo_tmp')
          /\ (ban_resp'.t = "resp" /\ ban_resp'.status = HTTP_OK
              /\ ban_resp'.body = "empty"
              /\ nom_resp'.t = "resp" /\ nom_resp'.status = HTTP_OK
              /\ nom_resp'.body = "match")
               => (geo_tmp'.tag = "Found" /\ geo_tmp'.provider = "Nominatim"
                   /\ calls' = <<"BAN", "Nominatim">>) )
      ]_vars

\* an address that got an error, then None, ... is found by the next action
C13_Witness ==
    /\ pc = "located" /\ Len(located) = 2
    /\ located[1].tag \in {"None", "Error"}
    /\ located[1].address # <<>>
    /\ located[2] = [address |-> located[1].address, tag |-> "Found"]
    /\ geo.tag = "Found"

\* C14: with a raster loaded, the label is the low one when the point is
\* outside the bounds of the raster, or its row or column is outside the
\* grid, or the value read is neither 2 nor 3; it is the intermediate one
\* exactly for the value 2 and the high one exactly for the value 3.
C14_LowUnlessTwoOrThree ==
    (pc = "sampled" /\ raster_file = "tif") =>
      LET x == point[2] - RasterLon0
          y == point[1] - RasterLat0
          outside == x < 0 \/ x > RasterWidth \/ y < 0 \/ y > RasterHeight
          row == RasterHeight - y
          col == x
          offgrid == row < 0 \/ col < 0 \/ row >= RasterHeight \/ col >= RasterWidth
          read(v) == ~outside /\ ~offgrid /\ pixel_at(row, col) = v
      IN  /\ risk_class \in {Str(RAW_LOW), Str(RAW_MID), Str(RAW_HIGH)}
          /\ (risk_class = Str(RAW_MID))  <=> read("2")
          /\ (risk_class = Str(RAW_HIGH)) <=> read("3")
          /\ (outside \/ offgrid) => risk_class = Str(RAW_LOW)

\* a point on the right edge of the raster, whose column is the width: low
C14_Witness ==
    /\ pc = "sampled" /\ raster_file = "tif"
    /\ point = <<RasterLat0 + 1, RasterLon0 + RasterWidth>>
    /\ risk_class = Str(RAW_LOW)

\* C15: whatever the point and whatever the state of the raster source, a call
\* of risk_class_from_geo returns a label, never None.
C15_NeverNull ==
    pc = "sampled" => risk_class # NA

\* C17: a call makes no request when the cache holds an entry or a non-empty
\* local file exists, and then leaves the file alone; a call makes at most one
\* request; a request that fails (exception or HTTP error) writes nothing and
\* leaves no cache entry; a request that succeeds leaves a cache entry, and an
\* entry stays, so that no later call asks the remote source again.
C17_FetchedAtMostOnce ==
    [][ /\ (raster_memo \/ raster_file \notin {"absent", "empty"})
             => (fetches' = fetches /\ raster_file' = raster_file)
        /\ fetches' \in {fetches, fetches + 1}
        /\ (fetches' # fetches /\ (fetch_reply'.t = "exc" \/ fetch_reply'.status >= 400))
             => (raster_file' = raster_file /\ ~raster_memo')
        /\ (fetches' # fetches /\ fetch_reply'.t = "resp" /\ fetch_reply'.status = HTTP_OK)
             => (raster_memo' /\ raster_file' = fetch_reply'.body)
        /\ raster_memo => raster_memo'
      ]_vars

\* two calls, the first fetched the raster, the second asked nothing
C17_Witness ==
    /\ pc = "sampled" /\ ncalls = 2 /\ fetches = 1
    /\ raster_file = "tif" /\ raster_memo /\ fetch_reply = NoReply

\* C18: two calls in a row at the same point return the same label.
C18_SameLabelAtSamePoint ==
    [][ (pc = "sampled" /\ pc' = "sampled" /\ point' = point)
          => risk_class' = risk_class ]_vars

\* the registry given to the reconciliation, and the keywords of a label in
\* the order the reconciliation looks for them
MatchLevels == levels_of(factor_levels, CLASSE_DE_RISQUE)

KeywordsOf(target) ==
    LET t == lower(strip(target))
    IN  IF Contains(t, KW_FAIBLE) \/ Contains(t, KW_MECONNU) \/ Contains(t, KW_MECONNU2)
        THEN <<KW_FAIBLE, KW_MECONNU, KW_MECONNU2>>
        ELSE IF Contains(t, KW_INTER) THEN <<KW_INTER>>
        ELSE IF Contains(t, KW_FORT) THEN <<KW_FORT>>
        ELSE <<>>

ExactTokens == {i \in 1..Len(MatchLevels) :
                  lower(strip(MatchLevels[i])) = lower(strip(raw_label))}

TokensWith(kw) == {i \in 1..Len(MatchLevels) :
                     Contains(lower(strip(MatchLevels[i])), kw)}

First(S) == CHOOSE i \in S : \A j \in S : i <= j

\* C16: (a) the first token equal to the label, case and outer blanks apart,
\* is returned when there is one; otherwise (b) the keywords of the label are
\* tried in their order (faible, meconnu, me'connu for the low label; inter;
\* fort) and the first token containing the first keyword that any token
\* contains is returned; otherwise (c) the label itself.  The result is a
\* token of the registry or the label, and the label when the registry is
\* empty.
C16_Precedence ==
    pc = "matched" =>
      LET kws  == KeywordsOf(raw_label)
          hits == {k \in 1..Len(kws) : TokensWith(kws[k]) # {}}
      IN  /\ risk_class =
                IF MatchLevels = <<>> THEN Str(raw_label)
                ELSE IF ExactTokens # {} THEN Str(MatchLevels[First(ExactTokens)])
                ELSE IF hits # {} THEN Str(MatchLevels[First(TokensWith(kws[First(hits)]))])
                ELSE Str(raw_label)
          /\ risk_class \in {Str(raw_label)} \cup {Str(MatchLevels[i]) : i \in 1..Len(MatchLevels)}

\* C16 with (b) read as: the first token that contains any keyword of the label.
C16_FirstTokenWithAnyKeyword ==
    pc = "matched" =>
      LET kws == KeywordsOf(raw_label)
          any == UNION {TokensWith(kws[k]) : k \in 1..Len(kws)}
      IN  risk_class =
            IF MatchLevels = <<>> THEN Str(raw_label)
            ELSE IF ExactTokens # {} THEN Str(MatchLevels[First(ExactTokens)])
            ELSE IF any # {} THEN Str(MatchLevels[First(any)])
            ELSE Str(raw_label)

\* "fort" against <<"Fort eleve", "fort">>: the equal token wins over the
\* earlier token that only contains the keyword
C16_Witness ==
    /\ pc = "matched" /\ raw_label = RAW_HIGH
    /\ MatchLevels = << <<"F","o","r","t"," ","e","l","e","v","e">>, <<"f","o","r","t">> >>
    /\ risk_class = Str(<<"f","o","r","t">>)

\* C19: when the model file or meta.json is missing, or meta.json lacks one of
\* feature_cols, cat_cols, factor_levels, the run stops at the loading: no
\* schema is loaded, no Record is built and no score is computed.
C19_BadArtifactStopsRun ==
    ( \/ model_file = "missing"
      \/ ~meta_file.exists
      \/ \E i \in 1..Len(META_KEYS) : META_KEYS[i] \notin meta_file.keys )
    => ( /\ pc \in {"boot", "stopped"}
         /\ IdleSchema /\ IdleRecord /\ IdleScore )

\* meta.json without factor_levels: the run has stopped
C19_Witness ==
    /\ pc = "stopped" /\ model_file = "ok"
    /\ meta_file = MetaFile(TRUE, TRUE, {"feature_cols", "cat_cols"})
    /\ X = NoRecord /\ cat = NO_CAT

\* C20: a run whose column check reports features missing or extra is stopped
\* before the classifier is asked: it computes no probability and no category.
C20_MismatchAbortsRun ==
    col_report.status = "mismatch" => (pc # "scored" /\ cat = NO_CAT)

(***************************************************************************)
(* C21.  The artifacts are loaded at most once in the life of the process: *)
(* over the reruns, the edits of the two paths and the session resets the  *)
(* body of load_model_and_meta runs at most once.                          *)
(***************************************************************************)
C21_LoadedAtMostOnce == loads <= 1

(***************************************************************************)
(* C22.  An answer keyed by either spelling of Exterieur_vegetalise is     *)
(* written to the one spelling the schema holds, when it holds only one;   *)
(* a key that is neither a feature nor an alias of one is ignored and adds *)
(* no column; every feature without an answer stays unknown.               *)
(***************************************************************************)
\* the feature an answer keyed by k is meant for (<<>> when there is none)
TargetOf(k) ==
    IF k \in Range(feature_cols) THEN k
    ELSE IF k = EXTERIEUR_ACCENT /\ EXTERIEUR_PLAIN \in Range(feature_cols)
         THEN EXTERIEUR_PLAIN
    ELSE IF k = EXTERIEUR_PLAIN /\ EXTERIEUR_ACCENT \in Range(feature_cols)
         THEN EXTERIEUR_ACCENT
    ELSE <<>>

\* the last answer meant for feature c, NA when there is none
LastAnswerFor(c) ==
    LET I == { i \in 1..Len(answered) : TargetOf(answered[i][1]) = c }
    IN  IF I = {} THEN NA
        ELSE answered[CHOOSE i \in I : \A j \in I : j <= i][2]

\* C22: the built Record has the schema's columns, each holding the last
\* answer meant for it, through its own name or its alias, and pd.NA otherwise
C22_AnswersReachTheirFeature ==
    pc \in {"built", "filled", "coerced", "scored"} =>
        /\ X_app.columns = feature_cols
        /\ DOMAIN X_app.row = Range(feature_cols)
        /\ \A c \in Range(feature_cols) : X_app.row[c] = LastAnswerFor(c)

C22_Witness ==
    /\ pc = "built"
    /\ EXTERIEUR_ACCENT \in Range(feature_cols)
    /\ EXTERIEUR_PLAIN \notin Range(feature_cols)
    /\ \E i, j \in 1..Len(answered) :
          /\ answered[i][1] = EXTERIEUR_PLAIN
          /\ X_app.row[EXTERIEUR_ACCENT] = answered[i][2]
          /\ answered[j][1] = Col("Champ_inconnu")
    /\ X_app.row[AGE] = NA

(***************************************************************************)
(* C23.  A submission runs its stages in the order builder (template and   *)
(* overlay), missingness encoder, schema coercion, classifier and category *)
(* mapper; the encoder runs once, on the built Record, and never once the  *)
(* coercion has run.                                                       *)
(***************************************************************************)
C23_StagesInOrder ==
    [][ /\ <<pc, pc'>> \in { <<"start", "built">>, <<"built", "filled">>,
                             <<"filled", "coerced">>, <<"coerced", "scored">> }
        /\ (X_app' # X_app => pc = "start")
        /\ (X_enc' # X_enc => pc = "built")
        /\ (X' # X => pc = "filled")
        /\ (X_cb' # X_cb \/ p_one' # p_one \/ cat' # cat => pc = "coerced")
        /\ (pc' = "scored" => cat' = cat_from_p_like_R(p_one')) ]_vars

\* a scored submission whose injected risk label is in the Record, whose
\* unknown Sexe the encoder saw as unknown and the coercion then replaced by
\* the sentinel
C23_Witness ==
    /\ pc = "scored"
    /\ CLASSE_DE_RISQUE \in DOMAIN inputs
    /\ X_app.row[CLASSE_DE_RISQUE] = Str(RAW_HIGH)
    /\ X_enc.row[SEXE] = NA
    /\ X_enc.row[MC("Boiterie")] = IntCell(1)
    /\ X.row[SEXE] = Str(MISSING)
    /\ cat = CAT_SUR

\* C24: in the Record handed to the classifier, for every non-categorical base
\* feature with an indicator, the indicator is 0 iff the base value is known;
\* a text the coercion degrades to unknown does not keep the indicator 0.
C24_IndicatorMatchesCoercedBase ==
    Coerced =>
      \A mc \in Range(feature_cols) :
        ( /\ endswith_missing_code(mc)
          /\ BaseOf(mc) \in Range(feature_cols)
          /\ BaseOf(mc) \notin Range(cat_cols) ) =>
            ( (X.row[mc].k = "num" /\ X.row[mc].v[1] = 0)
                <=> ~isna(X.row[BaseOf(mc)]) )

\* the outcome of the most recent locate action: no locate yet counts as a
\* locate that found nothing
LastLocate ==
    IF located = <<>> THEN [address |-> <<>>, tag |-> "None", label |-> NA]
    ELSE located[Len(located)]

C26_IndicatorsFromBasesOnly ==
    Encoded =>
      /\ X_enc.columns = X_app.columns
      /\ DOMAIN X_enc.row = DOMAIN X_app.row
      /\ \A mc \in DOMAIN X_enc.row :
            endswith_missing_code(mc) =>
              /\ X_enc.row[mc] \in {IntCell(0), IntCell(1), IntCell(2)}
              /\ X_enc.row[mc] =
                   IF BaseOf(mc) \notin DOMAIN X_app.row THEN IntCell(0)
                   ELSE IF ~isna(X_app.row[BaseOf(mc)]) THEN IntCell(0)
                   ELSE IF BaseOf(mc) \in analysis_cols THEN IntCell(2)
                   ELSE IntCell(1)
      /\ \A c \in DOMAIN X_enc.row :
            ~endswith_missing_code(c) => X_enc.row[c] = X_app.row[c]

\* the caller put a text in ELISA_pos_missing_code and answered ELISA_pos;
\* Ancienne_variable_missing_code has no base; Sexe has no indicator
C26_Witness ==
    /\ pc = "filled"
    /\ X_app.row[MC("ELISA_pos")] = Str(T_BANANA)
    /\ ~isna(X_app.row[ELISA]) /\ X_enc.row[MC("ELISA_pos")] = IntCell(0)
    /\ Col("Ancienne_variable") \notin DOMAIN X_enc.row
    /\ X_enc.row[MC("Ancienne_variable")] = IntCell(0)
    /\ MC("Sexe") \notin DOMAIN X_enc.row

\* the column list and the cells of a Record are those of the schema
OverSchema(XX) ==
    /\ XX.columns = feature_cols
    /\ DOMAIN XX.row = Range(feature_cols)

\* C27: at every stage of a submission (template and overlay, encoder,
\* coercion, and the copy given to the classifier) the column list of the
\* Record is feature_cols, in the same order, whatever the input mapping.
C27_ColumnsAreTheSchema ==
    /\ pc \in {"built", "filled", "coerced", "scored"} =>
          (OverSchema(build_template(feature_cols)) /\ OverSchema(X_app))
    /\ Encoded => OverSchema(X_enc)
    /\ Coerced => OverSchema(X)
    /\ pc = "scored" => OverSchema(X_cb)

\* a scored submission whose mapping held a key that is no feature, with a
\* categorical column (Type_de_cheval) that is no feature either
C27_Witness ==
    /\ pc = "scored"
    /\ Col("Champ_inconnu") \in DOMAIN inputs
    /\ Col("Champ_inconnu") \notin DOMAIN X_cb.row
    /\ Col("Type_de_cheval") \in Range(cat_cols) \ DOMAIN X_cb.row
    /\ X_cb.columns = feature_cols

\* C28: over the locate actions, the form resets, the session resets and the
\* other reruns, geo is None or a found place, never an error record, and
\* risk_class is not None only while geo is a found place; a locate that ends
\* with a blank address, no match or a provider error leaves both None.
C28_GeoAndRiskConsistent ==
    /\ geo = None \/ geo.tag = "Found"
    /\ ~isna(risk_class) => geo.tag = "Found"
    /\ (pc = "located" /\ LastLocate.tag # "Found") =>
          (geo = None /\ risk_class = NA)
    /\ (pc = "located" /\ LastLocate.tag = "Found") =>
          (geo = geo_tmp /\ risk_class = LastLocate.label)

\* a locate on a non-blank address that ended with a provider error
C28_Witness ==
    /\ pc = "located"
    /\ LastLocate.tag = "Error" /\ LastLocate.address # <<>>
    /\ geo_tmp.tag = "Error"
    /\ geo = None /\ risk_class = NA

\* C29: last_result of the session is None in every reachable state: no
\* action, a successful submission included, assigns it, so that the export
\* branch, which requires a last_result, never runs.
C29_LastResultNeverSet == last_result = None

\* a submission that gave a category
C29_Witness ==
    /\ pc = "submitted"
    /\ cat \in {CAT_NONE, CAT_POSSIBLE, CAT_PROBABLE, CAT_SUR}
    /\ X_cb # NoRecord
    /\ last_result = None

\* C30: the schema coercion is idempotent: coerce_like_train_python applied to
\* a coerced Record, and the categorical coercion repeated on the classifier
\* copy, leave every cell unchanged.
C30_CoercionIdempotent ==
    /\ Coerced =>
          /\ coerce_like_train_python(X, feature_cols, cat_cols, factor_levels) = X
          /\ recoerce_cat(X, cat_cols) = X
    /\ pc = "scored" =>
          /\ X_cb = X
          /\ coerce_like_train_python(X_cb, feature_cols, cat_cols, factor_levels) = X_cb

\* a coerced Record in which the coercion changed a text into a number, an
\* unknown category into the sentinel and an integer category into a text
C30_Witness ==
    /\ pc = "scored"
    /\ X_enc.row[AGE] = Str(T_12) /\ X.row[AGE] = FloatCell(12, 0)
    /\ X_enc.row[BOITERIE] = Str(T_OUI) /\ X.row[BOITERIE] = FloatCell(1, 0)
    /\ X_enc.row[SEXE] = IntCell(1) /\ X.row[SEXE] = Str(T_1)
    /\ X_enc.row[CLASSE_DE_RISQUE] = NA /\ X.row[CLASSE_DE_RISQUE] = Str(MISSING)
====
